---- MODULE Spec2Model ----
(***************************************************************************)
(* Model of the entry-resolution core of the tennis entry-list tracker:    *)
(* name normalisation (matching/name_matcher.py), week and tournament      *)
(* canonicalisation (output/html_writer.py), abbreviated-name expansion    *)
(* (main.py), player matching (matching/name_matcher.py) and the           *)
(* dedup / promotion fold (output/site_writer.py).                         *)
(*                                                                         *)
(* Python strings are sequences of one-character atoms.  An atom is a TLA+ *)
(* string; the two non-ASCII characters the model uses are written         *)
(* "E_ACUTE" (U+00E9) and "RSQUO" (U+2019).                                *)
(***************************************************************************)
EXTENDS Integers, Sequences, FiniteSets, TLC

VARIABLES pc, players, raw_entries, all_entries, player_entry_map, players_data,
          score, nm_a, nm_b, nm_ra, nm_rb, csv_rows, html_data,
          now, cache, returned

\* raw_entries keeps the collectors' output as it was before _attach_draw_reasons
\* rewrites all_entries in place; nm_a and nm_b hold the arguments and nm_ra and
\* nm_rb the results of the functions that are run on their own
\* csv_rows is what write_csv wrote and html_data what write_html embedded;
\* now is the clock in days, cache the content of rankings/cache.json and
\* returned what the last fetch_*_rankings call gave back
vars == <<pc, players, raw_entries, all_entries, player_entry_map, players_data,
          score, nm_a, nm_b, nm_ra, nm_rb, csv_rows, html_data,
          now, cache, returned>>

pipeVars == <<players, raw_entries, all_entries, player_entry_map, players_data, score,
              csv_rows, html_data>>
normVars == <<nm_a, nm_b, nm_ra, nm_rb>>
cacheVars == <<now, cache, returned>>

(***************************************************************************)
(* Characters and the str methods the code uses                            *)
(***************************************************************************)
UpperCase == <<"A","B","C","D","E","F","G","H","I","J","K","L","M",
               "N","O","P","Q","R","S","T","U","V","W","X","Y","Z">>
LowerCase == <<"a","b","c","d","e","f","g","h","i","j","k","l","m",
               "n","o","p","q","r","s","t","u","v","w","x","y","z">>
Digits == <<"0","1","2","3","4","5","6","7","8","9">>

InSeq(c, s) == \E i \in 1..Len(s) : s[i] = c
PosIn(c, s) == CHOOSE i \in 1..Len(s) : s[i] = c

IsUpperChar(c) == InSeq(c, UpperCase) \/ c = "E_ACUTE_CAP"
IsLowerChar(c) == InSeq(c, LowerCase) \/ c = "E_ACUTE"
IsDigit(c) == InSeq(c, Digits)
DigitVal(c) == PosIn(c, Digits) - 1
IsSpace(c) == c = " "
\* \w of the re module: letters (also accented ones), digits, underscore
IsWordChar(c) == IsUpperChar(c) \/ IsLowerChar(c) \/ IsDigit(c) \/ c = "_"

LowerChar(c) == IF InSeq(c, UpperCase) THEN LowerCase[PosIn(c, UpperCase)]
                ELSE IF c = "E_ACUTE_CAP" THEN "E_ACUTE" ELSE c
UpperChar(c) == IF InSeq(c, LowerCase) THEN UpperCase[PosIn(c, LowerCase)]
                ELSE IF c = "E_ACUTE" THEN "E_ACUTE_CAP" ELSE c

StrLower(s) == [i \in 1..Len(s) |-> LowerChar(s[i])]
StrUpper(s) == [i \in 1..Len(s) |-> UpperChar(s[i])]

RECURSIVE LStrip(_)
LStrip(s) == IF s # <<>> /\ IsSpace(Head(s)) THEN LStrip(Tail(s)) ELSE s

RECURSIVE RStrip(_)
RStrip(s) == IF s # <<>> /\ IsSpace(s[Len(s)])
             THEN RStrip(SubSeq(s, 1, Len(s) - 1)) ELSE s

StrStrip(s) == RStrip(LStrip(s))

\* str.split(): the maximal runs of non-whitespace characters
RECURSIVE SplitFrom(_, _, _)
SplitFrom(s, cur, acc) ==
    IF s = <<>> THEN (IF cur = <<>> THEN acc ELSE Append(acc, cur))
    ELSE IF IsSpace(Head(s))
         THEN SplitFrom(Tail(s), <<>>, IF cur = <<>> THEN acc ELSE Append(acc, cur))
         ELSE SplitFrom(Tail(s), Append(cur, Head(s)), acc)

StrSplit(s) == SplitFrom(s, <<>>, <<>>)

\* " ".join(words)
RECURSIVE JoinSpace(_)
JoinSpace(ws) == IF ws = <<>> THEN <<>>
                 ELSE IF Len(ws) = 1 THEN ws[1]
                 ELSE ws[1] \o <<" ">> \o JoinSpace(Tail(ws))

\* index of the first occurrence of character c in s, 0 when absent
FirstIndex(c, s) == IF InSeq(c, s)
                    THEN CHOOSE i \in 1..Len(s) :
                           s[i] = c /\ \A j \in 1..(i - 1) : s[j] # c
                    ELSE 0

\* unidecode: ASCII transliteration of one character
UnidecodeChar(c) == IF c = "E_ACUTE" THEN <<"e">>
                    ELSE IF c = "E_ACUTE_CAP" THEN <<"E">>
                    ELSE IF c = "RSQUO" THEN <<"'">>
                    ELSE <<c>>

RECURSIVE Unidecode(_)
Unidecode(s) == IF s = <<>> THEN <<>> ELSE UnidecodeChar(Head(s)) \o Unidecode(Tail(s))

\* .replace("-", " ").replace("'", "")
HyphenAposChar(c) == IF c = "-" THEN <<" ">> ELSE IF c = "'" THEN <<>> ELSE <<c>>

RECURSIVE ReplaceHyphenApos(_)
ReplaceHyphenApos(s) == IF s = <<>> THEN <<>>
                        ELSE HyphenAposChar(Head(s)) \o ReplaceHyphenApos(Tail(s))

(***************************************************************************)
(* matching/name_matcher.py                                                *)
(***************************************************************************)
\* mutant of SwapLastFirst: the comma is left in place, nothing is swapped
SwapLastFirst_NoSwap(name) == name

\* name.split(",", 1) followed by f"{parts[1].strip()} {parts[0].strip()}"
SwapLastFirst(name) ==
    LET k == FirstIndex(",", name)
        before == SubSeq(name, 1, k - 1)
        after == SubSeq(name, k + 1, Len(name))
    IN  StrStrip(after) \o <<" ">> \o StrStrip(before)

normalize_name(name) ==
    IF name = <<>> THEN <<>>
    ELSE LET swapped == IF InSeq(",", name) THEN SwapLastFirst(name) ELSE name
             ascii == Unidecode(swapped)
             lowered == StrLower(ascii)
             cleaned == ReplaceHyphenApos(lowered)
         IN  JoinSpace(StrSplit(cleaned))

(***************************************************************************)
(* output/html_writer.py: week labels                                      *)
(***************************************************************************)
MONTHS == << <<"J","a","n">>, <<"F","e","b">>, <<"M","a","r">>, <<"A","p","r">>,
             <<"M","a","y">>, <<"J","u","n">>, <<"J","u","l">>, <<"A","u","g">>,
             <<"S","e","p">>, <<"O","c","t">>, <<"N","o","v">>, <<"D","e","c">> >>

None == <<>>

\* first index >= i of s that holds no whitespace, Len(s) + 1 when there is none
RECURSIVE SkipSpaces(_, _)
SkipSpaces(s, i) == IF i <= Len(s) /\ IsSpace(s[i]) THEN SkipSpaces(s, i + 1) ELSE i

\* int() of the one or two digits matched by (\d{1,2}) at index i
DigitsAt(s, i) == IF i + 1 <= Len(s) /\ IsDigit(s[i + 1])
                  THEN 10 * DigitVal(s[i]) + DigitVal(s[i + 1])
                  ELSE DigitVal(s[i])

\* re.match(r"(\w{3})\s+(\d{1,2})", week): <<group 1, int(group 2)>> or None
MatchMonDay(week) ==
    IF /\ Len(week) >= 5
       /\ \A i \in 1..3 : IsWordChar(week[i])
       /\ IsSpace(week[4])
    THEN LET j == SkipSpaces(week, 4)
         IN  IF j <= Len(week) /\ IsDigit(week[j])
             THEN <<SubSeq(week, 1, 3), DigitsAt(week, j)>>
             ELSE None
    ELSE None

\* re.match(r"(\d{1,2})\s+(\w{3})\s+to", week): <<group 2, int(group 1)>> or None
MatchDayMonTo(week) ==
    IF Len(week) >= 1 /\ IsDigit(week[1])
    THEN LET k == IF Len(week) >= 2 /\ IsDigit(week[2]) THEN 2 ELSE 1
             j == SkipSpaces(week, k + 1)
         IN  IF /\ j > k + 1
                /\ j + 3 <= Len(week)
                /\ \A i \in j..(j + 2) : IsWordChar(week[i])
                /\ IsSpace(week[j + 3])
             THEN LET t == SkipSpaces(week, j + 3)
                  IN  IF t + 1 <= Len(week) /\ week[t] = "t" /\ week[t + 1] = "o"
                      THEN <<SubSeq(week, j, j + 2), DigitsAt(week, 1)>>
                      ELSE None
             ELSE None
    ELSE None

_extract_start_date(week) ==
    IF week = <<>> THEN None
    ELSE LET m1 == MatchMonDay(week)
             m2 == MatchDayMonTo(week)
         IN  IF m1 # None /\ InSeq(m1[1], MONTHS)
             THEN <<PosIn(m1[1], MONTHS), m1[2]>>
             ELSE IF m2 # None /\ InSeq(m2[1], MONTHS)
                  THEN <<PosIn(m2[1], MONTHS), m2[2]>>
                  ELSE None

\* str(day) for the day numbers a two-digit match can give
DecStr(n) == IF n < 10 THEN <<Digits[n + 1]>>
             ELSE <<Digits[(n \div 10) + 1], Digits[(n % 10) + 1]>>

\* mutant of _normalize_week: the label is passed through unchanged
_normalize_week_Raw(week) == week

_normalize_week(week) ==
    LET date == _extract_start_date(week)
    IN  IF date = None THEN week
        ELSE MONTHS[date[1]] \o <<" ">> \o DecStr(date[2])

\* code point order of the characters the model uses
CharOrder == <<" ", "'", "(", ")", ",", "-", ".">> \o Digits \o <<"?">> \o UpperCase
             \o <<"_">> \o LowerCase \o <<"E_ACUTE_CAP", "E_ACUTE", "RSQUO", "QMARK_ORN">>

CodePoint(c) == PosIn(c, CharOrder)

\* Python's < on str
RECURSIVE StrLess(_, _)
StrLess(a, b) == IF b = <<>> THEN FALSE
                 ELSE IF a = <<>> THEN TRUE
                 ELSE IF Head(a) = Head(b) THEN StrLess(Tail(a), Tail(b))
                 ELSE CodePoint(Head(a)) < CodePoint(Head(b))

\* mutant of WeekKey: the key is the month alone
WeekKey_MonthOnly(w) == LET d == _extract_start_date(w) IN d[1] * 100

WeekKey(w) == LET d == _extract_start_date(w) IN d[1] * 100 + d[2]

\* dated.sort(): ascending by (sort_key, date, label)
DatedLess(a, b) == \/ WeekKey(a) < WeekKey(b)
                   \/ WeekKey(a) = WeekKey(b) /\ StrLess(a, b)

RECURSIVE SortedDated(_)
SortedDated(S) == IF S = {} THEN <<>>
                  ELSE LET lo == CHOOSE w \in S : \A v \in S \ {w} : DatedLess(w, v)
                       IN  <<lo>> \o SortedDated(S \ {lo})

\* the sweep of _merge_close_weeks: anchor is the first label of the last group
RECURSIVE SweepGroups(_, _, _)
SweepGroups(dated, anchor, map) ==
    IF dated = <<>> THEN map
    ELSE LET label == Head(dated)
             fits == anchor # None /\ WeekKey(label) - WeekKey(anchor[1]) <= 5
             canon == IF fits THEN anchor[1] ELSE label
         IN  SweepGroups(Tail(dated), <<canon>>, map @@ (label :> canon))

\* mutant of _merge_close_weeks: a dated label is mapped to the 'Mon D' form
\* of its group's first label
_merge_close_weeks_Normalized(weeks) ==
    LET dated == {w \in weeks : _extract_start_date(w) # None}
        undated == weeks \ dated
        swept == SweepGroups(SortedDated(dated), None, <<>>)
    IN  [w \in dated |-> _normalize_week(swept[w])] @@ [w \in undated |-> w]

_merge_close_weeks(weeks) ==
    LET dated == {w \in weeks : _extract_start_date(w) # None}
        undated == weeks \ dated
    IN  SweepGroups(SortedDated(dated), None, <<>>) @@ [w \in undated |-> w]

\* dated.sort() on the list the loop over the set built, in any iteration order
RECURSIVE InsertDated(_, _)
InsertDated(x, sorted) ==
    IF sorted = <<>> THEN <<x>>
    ELSE IF DatedLess(x, Head(sorted)) THEN <<x>> \o sorted
    ELSE <<Head(sorted)>> \o InsertDated(x, Tail(sorted))

RECURSIVE SortDated(_)
SortDated(s) ==
    IF s = <<>> THEN <<>>
    ELSE InsertDated(s[Len(s)], SortDated(SubSeq(s, 1, Len(s) - 1)))

\* the labels of a list that have a start date, in the order of the list
DatedOf(order) ==
    LET RECURSIVE Keep(_)
        Keep(i) == IF i > Len(order) THEN <<>>
                   ELSE IF _extract_start_date(order[i]) # None
                        THEN <<order[i]>> \o Keep(i + 1)
                        ELSE Keep(i + 1)
    IN  Keep(1)

\* mutant of MergeInOrder: the list is swept as iterated, without the sort
MergeInOrder_Unsorted(order) ==
    SweepGroups(DatedOf(order), None, <<>>)
      @@ [w \in {order[i] : i \in 1..Len(order)} |-> w]

\* _merge_close_weeks when the set is iterated in the given order
MergeInOrder(order) ==
    SweepGroups(SortDated(DatedOf(order)), None, <<>>)
      @@ [w \in {order[i] : i \in 1..Len(order)} |-> w]

\* _week_sort_key: re.match(r"Week\s+(\d+)", week) gives the (1, N) fallback
RECURSIVE IntOfDigits(_, _, _)
IntOfDigits(s, i, acc) == IF i <= Len(s) /\ IsDigit(s[i])
                          THEN IntOfDigits(s, i + 1, 10 * acc + DigitVal(s[i]))
                          ELSE acc

MatchWeekN(week) ==
    IF Len(week) >= 6 /\ SubSeq(week, 1, 4) = <<"W","e","e","k">> /\ IsSpace(week[5])
    THEN LET j == SkipSpaces(week, 5)
         IN  IF j <= Len(week) /\ IsDigit(week[j])
             THEN <<IntOfDigits(week, j, 0)>> ELSE None
    ELSE None

\* mutant of _week_sort_key: a 'Week N' label is keyed like a dated one
_week_sort_key_WeekFirst(week) ==
    IF week = <<>> THEN <<2, 0>>
    ELSE IF _extract_start_date(week) # None THEN <<0, WeekKey(week)>>
    ELSE IF MatchWeekN(week) # None THEN <<0, MatchWeekN(week)[1]>>
    ELSE <<2, 0>>

_week_sort_key(week) ==
    IF week = <<>> THEN <<2, 0>>
    ELSE IF _extract_start_date(week) # None THEN <<0, WeekKey(week)>>
    ELSE IF MatchWeekN(week) # None THEN <<1, MatchWeekN(week)[1]>>
    ELSE <<2, 0>>

KeyLess(a, b) == a[1] < b[1] \/ (a[1] = b[1] /\ a[2] < b[2])

(***************************************************************************)
(* output/html_writer.py: tournament names                                 *)
(***************************************************************************)
\* rows <<key, canonical name>> of TOURNAMENT_ALIASES (lines 112, 230, 130,
\* 128, 242 and 195 of the table)
TOURNAMENT_ALIASES ==
    << <<<<"u","s"," ","o","p","e","n">>,
         <<"U","S"," ","O","p","e","n">>>>,
       <<<<"s","p"," ","o","p","e","n">>,
         <<"S","a","o"," ","P","a","u","l","o">>>>,
       <<<<"r","i","o"," ","o","p","e","n">>,
         <<"R","i","o"," ","d","e"," ","J","a","n","e","i","r","o">>>>,
       <<<<"q","a","t","a","r"," ","o","p","e","n">>,
         <<"D","o","h","a">>>>,
       <<<<"w","t","a"," ","f","i","n","a","l","s">>,
         <<"W","T","A"," ","F","i","n","a","l","s">>>>,
       <<<<"n","i","t","t","o"," ","a","t","p"," ","f","i","n","a","l","s">>,
         <<"A","T","P"," ","F","i","n","a","l","s">>>> >>

AliasHas(key) == \E i \in 1..Len(TOURNAMENT_ALIASES) : TOURNAMENT_ALIASES[i][1] = key
AliasGet(key) == TOURNAMENT_ALIASES[CHOOSE i \in 1..Len(TOURNAMENT_ALIASES) :
                                      TOURNAMENT_ALIASES[i][1] = key][2]

\* NFD decomposition with the combining marks removed
StripAccentChar(c) == IF c = "E_ACUTE" THEN "e"
                      ELSE IF c = "E_ACUTE_CAP" THEN "E" ELSE c

_strip_accents(text) == [i \in 1..Len(text) |-> StripAccentChar(text[i])]

AliasKey(name) == StrStrip(StrLower(_strip_accents(name)))

\* re.sub(r"^(?:ATP|WTA)\s+", "", name)
StripTourPrefix(name) ==
    IF /\ Len(name) >= 4
       /\ SubSeq(name, 1, 3) \in {<<"A","T","P">>, <<"W","T","A">>}
       /\ IsSpace(name[4])
    THEN SubSeq(name, SkipSpaces(name, 4), Len(name))
    ELSE name

\* str.capitalize()
Capitalize(w) == IF w = <<>> THEN w
                 ELSE <<UpperChar(w[1])>> \o StrLower(Tail(w))

Connectors == {<<"D","E">>, <<"D","I">>, <<"D","A">>, <<"D","O">>, <<"D","E","L">>, <<"L","A">>, <<"L","E">>}

TitleWords(words) ==
    [i \in 1..Len(words) |->
        IF i > 1 /\ StrUpper(words[i]) \in Connectors
        THEN StrLower(words[i]) ELSE Capitalize(words[i])]

\* mutant of TitleCase: an ALL-CAPS name is left as it is
TitleCase_Keep(stripped) == stripped

TitleCase(stripped) == JoinSpace(TitleWords(StrSplit(stripped)))

\* does t match \s*\(CH\s*\d+\)$ from its first character on
RECURSIVE SkipDigits(_, _)
SkipDigits(s, i) == IF i <= Len(s) /\ IsDigit(s[i]) THEN SkipDigits(s, i + 1) ELSE i

IsChSuffix(t) ==
    LET i == SkipSpaces(t, 1)
    IN  /\ i + 2 <= Len(t)
        /\ SubSeq(t, i, i + 2) = <<"(","C","H">>
        /\ LET j == SkipSpaces(t, i + 3)
               k == SkipDigits(t, j)
           IN  k > j /\ k = Len(t) /\ t[k] = ")"

\* re.match(r"^(.+?)\s*\(CH\s*\d+\)$", stripped): group(1).strip(), or the
\* string itself when there is no match
StripChSuffix(stripped) ==
    LET cuts == {k \in 1..Len(stripped) :
                   IsChSuffix(SubSeq(stripped, k + 1, Len(stripped)))}
    IN  IF cuts = {} THEN stripped
        ELSE StrStrip(SubSeq(stripped, 1,
                             CHOOSE k \in cuts : \A m \in cuts : k <= m))

_normalize_tournament_name(name) ==
    IF name = <<>> THEN name
    ELSE IF AliasHas(AliasKey(name)) THEN AliasGet(AliasKey(name))
    ELSE LET noprefix == StripTourPrefix(name)
             cased == IF noprefix = StrUpper(noprefix) /\ Len(noprefix) > 3
                      THEN TitleCase(noprefix) ELSE noprefix
             stripped == StripChSuffix(cased)
         IN  IF AliasHas(AliasKey(stripped)) THEN AliasGet(AliasKey(stripped))
             ELSE _strip_accents(stripped)

(***************************************************************************)
(* main.py: _attach_draw_reasons                                           *)
(***************************************************************************)
\* the elements of s at the indexes in I, in the order of s
RECURSIVE Pick(_, _, _)
Pick(s, I, i) == IF i > Len(s) THEN <<>>
                 ELSE (IF i \in I THEN <<s[i]>> ELSE <<>>) \o Pick(s, I, i + 1)

Filter(s, I) == Pick(s, I, 1)

IsDraw(e) == e.source = "OfficialDraw"

\* re.match(r"[A-Z][a-z]{0,3}\.", name): index of the dot, 0 when no match
RECURSIVE SkipLower(_, _)
SkipLower(s, i) == IF i <= Len(s) /\ InSeq(s[i], LowerCase) THEN SkipLower(s, i + 1) ELSE i

AbbrevDot(name) ==
    IF name # <<>> /\ InSeq(name[1], UpperCase)
    THEN LET r == SkipLower(name, 2)
         IN  IF r <= 5 /\ r <= Len(name) /\ name[r] = "." THEN r ELSE 0
    ELSE 0

\* re.match(r"([A-Z][a-z]{0,3})\.\s+(.+)", name): the key
\* (initial, surname_lower, gender) of a draw entry, None when no match
DrawKey(de) ==
    LET name == de.player_name
        d == AbbrevDot(name)
    IN  IF d > 0 /\ Len(name) >= d + 2 /\ IsSpace(name[d + 1])
        THEN LET j == SkipSpaces(name, d + 1)
                 rest == SubSeq(name, IF j <= Len(name) THEN j ELSE Len(name), Len(name))
             IN  <<name[1], StrLower(StrStrip(rest)), de.gender>>
        ELSE None

\* keys (initial, surname, gender) and (initial, last token, gender) of a full name
FullKeys(entry) ==
    LET parts == StrSplit(entry.player_name)
    IN  IF Len(parts) < 2 THEN {}
        ELSE {<<UpperChar(parts[1][1]), StrLower(JoinSpace(Tail(parts))), entry.gender>>,
              <<UpperChar(parts[1][1]), StrLower(parts[Len(parts)]), entry.gender>>}

FullKey(entry) ==
    LET parts == StrSplit(entry.player_name)
    IN  <<UpperChar(parts[1][1]), StrLower(JoinSpace(Tail(parts))), entry.gender>>

FullKeyLast(entry) ==
    LET parts == StrSplit(entry.player_name)
    IN  <<UpperChar(parts[1][1]), StrLower(parts[Len(parts)]), entry.gender>>

\* mutant of full_name_lookup: the (initial, last token) key is never stored
full_name_lookup_NoLast(entries, key) ==
    LET hits == {i \in 1..Len(entries) :
                   ~IsDraw(entries[i]) /\ Len(StrSplit(entries[i].player_name)) >= 2
                   /\ key = FullKey(entries[i])}
    IN  IF hits = {} THEN None
        ELSE entries[CHOOSE i \in hits : \A j \in hits : i <= j].player_name

\* full_name_lookup.get(key): the first non-draw entry that supplies the key wins
full_name_lookup(entries, key) ==
    LET hits == {i \in 1..Len(entries) :
                   ~IsDraw(entries[i]) /\ key \in FullKeys(entries[i])}
    IN  IF hits = {} THEN None
        ELSE entries[CHOOSE i \in hits : \A j \in hits : i <= j].player_name

\* draw_by_key[k] restricted to the entries that carry a reason, in list order
DrawReasons(entries, k) ==
    LET hits == {i \in 1..Len(entries) :
                   IsDraw(entries[i]) /\ DrawKey(entries[i]) = k
                   /\ entries[i].reason # ""}
    IN  [n \in 1..Len(Filter(entries, hits)) |-> Filter(entries, hits)[n].reason]

\* mutant of AttachReason: only the full-surname key is looked up
AttachReason_SurnameOnly(entries, entry) ==
    IF IsDraw(entry) \/ ~entry.withdrawn \/ Len(StrSplit(entry.player_name)) < 2
       \/ entry.reason # ""
    THEN entry
    ELSE LET r1 == DrawReasons(entries, FullKey(entry))
         IN  IF r1 # <<>> THEN [entry EXCEPT !.reason = r1[1]] ELSE entry

\* Step 1: the reason a withdrawn entry of another source receives
AttachReason(entries, entry) ==
    IF IsDraw(entry) \/ ~entry.withdrawn \/ Len(StrSplit(entry.player_name)) < 2
       \/ entry.reason # ""
    THEN entry
    ELSE LET r1 == DrawReasons(entries, FullKey(entry))
             r2 == DrawReasons(entries, FullKeyLast(entry))
         IN  IF r1 # <<>> THEN [entry EXCEPT !.reason = r1[1]]
             ELSE IF r2 # <<>> THEN [entry EXCEPT !.reason = r2[1]]
             ELSE entry

\* mutant of ExpandName: the last non-draw entry that supplies the key wins
ExpandName_LastWins(entries, de) ==
    LET key == DrawKey(de)
        hits == {i \in 1..Len(entries) :
                   ~IsDraw(entries[i]) /\ key \in FullKeys(entries[i])}
    IN  IF key = None \/ hits = {} THEN de
        ELSE [de EXCEPT !.player_name =
                 entries[CHOOSE i \in hits : \A j \in hits : j <= i].player_name]

\* Step 2: a draw entry with its abbreviated name replaced on a lookup hit
ExpandName(entries, de) ==
    LET key == DrawKey(de)
    IN  IF key = None THEN de
        ELSE LET full == full_name_lookup(entries, key)
                 surname_parts == StrSplit(key[2])
                 alt == IF full = None /\ Len(surname_parts) > 1
                        THEN full_name_lookup(entries,
                               <<key[1], surname_parts[Len(surname_parts)], key[3]>>)
                        ELSE full
             IN  IF alt # None THEN [de EXCEPT !.player_name = alt] ELSE de

_attach_draw_reasons(entries) ==
    IF \A i \in 1..Len(entries) : ~IsDraw(entries[i]) THEN entries
    ELSE LET patched == [i \in 1..Len(entries) |->
                           IF IsDraw(entries[i]) THEN ExpandName(entries, entries[i])
                           ELSE AttachReason(entries, entries[i])]
             others == {i \in 1..Len(entries) : ~IsDraw(patched[i])}
             kept == {i \in 1..Len(entries) :
                        IsDraw(patched[i]) /\ AbbrevDot(patched[i].player_name) = 0}
         IN  Filter(patched, others) \o Filter(patched, kept)

(***************************************************************************)
(* matching/name_matcher.py: match_player_to_entries, build_player_entry_map *)
(***************************************************************************)
FUZZY_MATCH_THRESHOLD == 85
FUZZY_MATCH_STRICT_THRESHOLD == 95

\* player_gender and entry.get("gender") and player_gender != entry["gender"]
GenderClash(pg, eg) == pg # "" /\ eg # "" /\ pg # eg

\* fuzz.token_sort_ratio(player_norm, entry_norm), a given of the run
ScoreOf(sc, player, entry) ==
    sc[<<normalize_name(player.name), normalize_name(entry.player_name)>>]

\* mutant of CountryConfirms: a missing country code counts as a match
CountryConfirms_Lax(player, entry) ==
    \/ player.country_code = <<>>
    \/ entry.player_country = <<>>
    \/ StrUpper(player.country_code) = StrUpper(entry.player_country)

CountryConfirms(player, entry) ==
    /\ StrUpper(player.country_code) # <<>>
    /\ StrUpper(entry.player_country) # <<>>
    /\ StrUpper(player.country_code) = StrUpper(entry.player_country)

\* the body of the loop of match_player_to_entries: is the entry appended
Accepts(sc, player, entry) ==
    /\ ~GenderClash(player.gender, entry.gender)
    /\ \/ normalize_name(player.name) = normalize_name(entry.player_name)
       \/ ScoreOf(sc, player, entry) >= FUZZY_MATCH_STRICT_THRESHOLD
       \/ /\ ScoreOf(sc, player, entry) >= FUZZY_MATCH_THRESHOLD
          /\ CountryConfirms(player, entry)

match_player_to_entries(sc, player, entry_list) ==
    Filter(entry_list, {i \in 1..Len(entry_list) : Accepts(sc, player, entry_list[i])})

\* mutant of ExactMatches: the name index is used without the gender filter
ExactMatches_AnyGender(player, entries) ==
    Filter(entries, {i \in 1..Len(entries) :
        normalize_name(entries[i].player_name) = normalize_name(player.name)})

\* name_index.get(player_norm, []) with the known-gender mismatches removed
ExactMatches(player, entries) ==
    Filter(entries, {i \in 1..Len(entries) :
        /\ normalize_name(entries[i].player_name) = normalize_name(player.name)
        /\ ~GenderClash(player.gender, entries[i].gender)})

\* entries_by_gender.get(gender, entries)
GenderBucket(player, entries) ==
    IF player.gender \in {"M", "F"}
    THEN Filter(entries, {i \in 1..Len(entries) : entries[i].gender = player.gender})
    ELSE entries

\* mutant of MatchesOf: the fuzzy pass runs for every player
MatchesOf_AlwaysFuzzy(sc, player, entries) ==
    match_player_to_entries(sc, player, GenderBucket(player, entries))

MatchesOf(sc, player, entries) ==
    IF ExactMatches(player, entries) # <<>> THEN ExactMatches(player, entries)
    ELSE match_player_to_entries(sc, player, GenderBucket(player, entries))

\* f"{player['name']}|{player.get('gender', '')}"
PlayerKey(player) == <<player.name, player.gender>>

\* result[player_key] is assigned once per player; the last assignment stays
build_player_entry_map(sc, plist, entries) ==
    [k \in {PlayerKey(plist[i]) : i \in 1..Len(plist)} |->
        LET last == CHOOSE i \in 1..Len(plist) :
                      /\ PlayerKey(plist[i]) = k
                      /\ \A j \in 1..Len(plist) : PlayerKey(plist[j]) = k => j <= i
        IN  MatchesOf(sc, plist[last], entries)]

(***************************************************************************)
(* output/site_writer.py: write_site_data                                  *)
(***************************************************************************)
\* re.sub(r"\s*M\s*$", "", week) for a one-character mark M
StripMark(week, mark) ==
    LET t == RStrip(week)
    IN  IF t # <<>> /\ t[Len(t)] = mark THEN RStrip(SubSeq(t, 1, Len(t) - 1))
        ELSE week

\* the week of an entry before the merge map is applied (lines 49-52, 71-74)
CleanWeek(week) ==
    _normalize_week(StrStrip(StripMark(StripMark(week, "QMARK_ORN"), "?")))

MapGet(plist, map, player) ==
    IF PlayerKey(player) \in DOMAIN map THEN map[PlayerKey(player)] ELSE <<>>

\* Pass 1: all_raw_weeks
AllRawWeeks(plist, map) ==
    UNION {{CleanWeek(MapGet(plist, map, plist[i])[n].week) :
              n \in 1..Len(MapGet(plist, map, plist[i]))} : i \in 1..Len(plist)}
    \ {<<>>}

WeekMergeMap(plist, map) == _merge_close_weeks(AllRawWeeks(plist, map))

\* week_merge_map.get(week_val, week_val)
MergedWeek(wmap, week) ==
    LET w == CleanWeek(week) IN IF w \in DOMAIN wmap THEN wmap[w] ELSE w

DedupKey(wmap, entry) ==
    <<_normalize_tournament_name(entry.tournament), entry.section,
      MergedWeek(wmap, entry.week)>>

RecordKey(d) == <<d.tournament, d.section, d.week>>

\* index of the first record of deduped with the key (the loops that break)
FirstWithKey(deduped, key) ==
    CHOOSE i \in 1..Len(deduped) :
        RecordKey(deduped[i]) = key /\ \A j \in 1..(i - 1) : RecordKey(deduped[j]) # key

\* mutant of FlipWithdrawn: a duplicate never changes the merged record
FlipWithdrawn_Never(existing, entry) == existing

\* lines 83-91: prefer withdrawn status from any source
FlipWithdrawn(existing, entry) ==
    IF entry.withdrawn /\ ~existing.withdrawn
    THEN [existing EXCEPT !.withdrawn = TRUE, !.source = entry.source]
    ELSE existing

\* mutant of AttachOfficial: an OfficialDraw entry overwrites without a reason
AttachOfficial_AnyReason(existing, entry) ==
    IF entry.source = "OfficialDraw"
    THEN [existing EXCEPT !.source = "OfficialDraw",
                          !.reason = entry.reason,
                          !.withdrawn = TRUE,
                          !.withdrawal_type = IF entry.withdrawal_type # ""
                                              THEN entry.withdrawal_type ELSE @]
    ELSE existing

\* lines 93-103: OfficialDraw attaches reason and withdrawal_type
AttachOfficial(existing, entry) ==
    IF entry.source = "OfficialDraw" /\ entry.reason # ""
    THEN [existing EXCEPT !.source = "OfficialDraw",
                          !.reason = entry.reason,
                          !.withdrawn = TRUE,
                          !.withdrawal_type = IF entry.withdrawal_type # ""
                                              THEN entry.withdrawal_type ELSE @]
    ELSE existing

\* lines 117-131: entry_data of a first-seen key
NewRecord(wmap, entry) ==
    [tournament |-> _normalize_tournament_name(entry.tournament),
     tier |-> entry.tier,
     section |-> entry.section,
     week |-> MergedWeek(wmap, entry.week),
     source |-> entry.source,
     withdrawn |-> entry.withdrawn,
     reason |-> entry.reason,
     withdrawal_type |-> entry.withdrawal_type]

\* mutant of FoldEntry: the key is never looked up in seen
FoldEntry_NoSeen(wmap, st, entry) ==
    [seen |-> st.seen \cup {DedupKey(wmap, entry)},
     deduped |-> Append(st.deduped, NewRecord(wmap, entry))]

\* one iteration of the loop over a player's entries (lines 70-131)
FoldEntry(wmap, st, entry) ==
    LET key == DedupKey(wmap, entry)
    IN  IF key \in st.seen
        THEN LET i == FirstWithKey(st.deduped, key)
             IN  [st EXCEPT !.deduped[i] = AttachOfficial(FlipWithdrawn(@, entry), entry)]
        ELSE [seen |-> st.seen \cup {key},
              deduped |-> Append(st.deduped, NewRecord(wmap, entry))]

\* seen and deduped after the first n entries
RECURSIVE FoldUpTo(_, _, _)
FoldUpTo(wmap, entries, n) ==
    IF n = 0 THEN [seen |-> {}, deduped |-> <<>>]
    ELSE FoldEntry(wmap, FoldUpTo(wmap, entries, n - 1), entries[n])

Deduped(wmap, entries) == FoldUpTo(wmap, entries, Len(entries)).deduped

\* mutant of SectionRank: a section outside the table ranks above Main Draw
SectionRank_UnlistedTop(section) == IF section = "Alternates" THEN 0
                                    ELSE IF section = "Qualifying" THEN 1
                                    ELSE IF section = "Main Draw" THEN 2
                                    ELSE 3

\* SECTION_RANK.get(section, -1)
SectionRank(section) == IF section = "Alternates" THEN 0
                        ELSE IF section = "Qualifying" THEN 1
                        ELSE IF section = "Main Draw" THEN 2
                        ELSE 0 - 1

\* mutant of Promoted: the section comparison is inverted
Promoted_Inverted(deduped, d) ==
    /\ d.withdrawn
    /\ \E a \in 1..Len(deduped) :
          /\ ~deduped[a].withdrawn
          /\ deduped[a].tournament = d.tournament
          /\ deduped[a].week = d.week
          /\ SectionRank(deduped[a].section) < SectionRank(d.section)

\* lines 154-168: is record d a withdrawal that an active higher section voids
Promoted(deduped, d) ==
    /\ d.withdrawn
    /\ \E a \in 1..Len(deduped) :
          /\ ~deduped[a].withdrawn
          /\ deduped[a].tournament = d.tournament
          /\ deduped[a].week = d.week
          /\ SectionRank(deduped[a].section) > SectionRank(d.section)

RemovePromoted(deduped) ==
    Filter(deduped, {i \in 1..Len(deduped) : ~Promoted(deduped, deduped[i])})

\* mutant of RecordSortKey: a dated week is keyed by its day alone
RecordSortKey_DayOnly(d) ==
    IF _extract_start_date(d.week) # None
    THEN <<0, _extract_start_date(d.week)[2]>>
    ELSE _week_sort_key(d.week)

RecordSortKey(d) == _week_sort_key(d.week)

\* deduped.sort(key=...): list.sort is stable, x goes after every element whose
\* key is not larger
RECURSIVE InsertRecord(_, _)
InsertRecord(x, sorted) ==
    IF sorted = <<>> THEN <<x>>
    ELSE IF KeyLess(RecordSortKey(x), RecordSortKey(Head(sorted))) THEN <<x>> \o sorted
    ELSE <<Head(sorted)>> \o InsertRecord(x, Tail(sorted))

RECURSIVE SortRecords(_)
SortRecords(s) ==
    IF s = <<>> THEN <<>>
    ELSE InsertRecord(s[Len(s)], SortRecords(SubSeq(s, 1, Len(s) - 1)))

\* the entries list written for one player (lines 68-172)
PlayerRecords(wmap, entries) == SortRecords(RemovePromoted(Deduped(wmap, entries)))

\* sorted(players, key=lambda p: (p.get("gender", ""), p.get("rank", 9999)))
GenderOrd(g) == IF g = "" THEN 0 ELSE IF g = "F" THEN 1 ELSE 2
PlayerSortKey(p) == <<GenderOrd(p.gender), p.rank>>

RECURSIVE InsertPlayer(_, _)
InsertPlayer(x, sorted) ==
    IF sorted = <<>> THEN <<x>>
    ELSE IF KeyLess(PlayerSortKey(x), PlayerSortKey(Head(sorted))) THEN <<x>> \o sorted
    ELSE <<Head(sorted)>> \o InsertPlayer(x, Tail(sorted))

RECURSIVE SortPlayers(_)
SortPlayers(s) ==
    IF s = <<>> THEN <<>>
    ELSE InsertPlayer(s[Len(s)], SortPlayers(SubSeq(s, 1, Len(s) - 1)))

write_site_data(plist, map) ==
    LET wmap == WeekMergeMap(plist, map)
        ordered == SortPlayers(plist)
    IN  [i \in 1..Len(ordered) |->
            [name |-> ordered[i].name,
             gender |-> ordered[i].gender,
             rank |-> ordered[i].rank,
             country |-> ordered[i].country_code,
             entries |-> PlayerRecords(wmap, MapGet(plist, map, ordered[i]))]]

(***************************************************************************)
(* output/html_writer.py: write_html                                       *)
(***************************************************************************)
\* "Men" if player.get("gender") == "M" else "Women"
GenderLabel(player) == IF player.gender = "M" THEN "Men" ELSE "Women"

\* lines 521-528: the record of a first-seen key
HtmlRecord(wmap, entry) ==
    [tournament |-> _normalize_tournament_name(entry.tournament),
     tier |-> entry.tier,
     section |-> entry.section,
     week |-> MergedWeek(wmap, entry.week),
     source |-> entry.source,
     withdrawn |-> entry.withdrawn]

\* lines 501-528: an entry whose key was seen is skipped
HtmlDeduped(wmap, entries) ==
    LET first == {i \in 1..Len(entries) :
                    \A j \in 1..(i - 1) : DedupKey(wmap, entries[j]) # DedupKey(wmap, entries[i])}
        kept == Filter(entries, first)
    IN  [n \in 1..Len(kept) |-> HtmlRecord(wmap, kept[n])]

write_html(plist, map) ==
    LET wmap == WeekMergeMap(plist, map)
        ordered == SortPlayers(plist)
    IN  [i \in 1..Len(ordered) |->
            [rank |-> ordered[i].rank,
             name |-> ordered[i].name,
             gender |-> GenderLabel(ordered[i]),
             country |-> ordered[i].country_code,
             entries |-> SortRecords(HtmlDeduped(wmap, MapGet(plist, map, ordered[i])))]]

(***************************************************************************)
(* output/csv_writer.py: write_csv                                         *)
(***************************************************************************)
T_NoEntriesFound == <<"N","o"," ","e","n","t","r","i","e","s"," ","f","o","u","n","d">>

CsvKey(entry) == <<entry.tournament, entry.section, entry.source>>

\* lines 63-74: the row of one entry
CsvRow(player, entry) ==
    [Rank |-> player.rank, Player |-> player.name, Gender |-> GenderLabel(player),
     Country |-> player.country_code, Tournament |-> entry.tournament,
     Tier |-> entry.tier, Section |-> entry.section, Week |-> entry.week,
     Source |-> entry.source, Withdrawn |-> IF entry.withdrawn THEN "Yes" ELSE ""]

\* lines 76-87: the row of a player without entries
CsvEmptyRow(player) ==
    [Rank |-> player.rank, Player |-> player.name, Gender |-> GenderLabel(player),
     Country |-> player.country_code, Tournament |-> T_NoEntriesFound,
     Tier |-> "", Section |-> "", Week |-> <<>>, Source |-> "", Withdrawn |-> ""]

\* mutant of CsvRowsOf: a player without entries gets no row
CsvRowsOf_Skip(player, entries) ==
    LET first == {i \in 1..Len(entries) :
                    \A j \in 1..(i - 1) : CsvKey(entries[j]) # CsvKey(entries[i])}
        kept == Filter(entries, first)
    IN  [n \in 1..Len(kept) |-> CsvRow(player, kept[n])]

\* lines 54-87: the rows of one player
CsvRowsOf(player, entries) ==
    IF entries # <<>>
    THEN LET first == {i \in 1..Len(entries) :
                         \A j \in 1..(i - 1) : CsvKey(entries[j]) # CsvKey(entries[i])}
             kept == Filter(entries, first)
         IN  [n \in 1..Len(kept) |-> CsvRow(player, kept[n])]
    ELSE <<CsvEmptyRow(player)>>

RECURSIVE CsvRowsFrom(_, _, _, _)
CsvRowsFrom(ordered, plist, map, i) ==
    IF i > Len(ordered) THEN <<>>
    ELSE CsvRowsOf(ordered[i], MapGet(plist, map, ordered[i]))
         \o CsvRowsFrom(ordered, plist, map, i + 1)

write_csv(plist, map) == CsvRowsFrom(SortPlayers(plist), plist, map, 1)

(***************************************************************************)
(* rankings/api_client.py: the weekly cache of the rankings                *)
(***************************************************************************)
\* no timestamp, no list
Absent == 0 - 1

\* _last_monday_utc(): the clock counts days and day 0 is a Monday
_last_monday_utc == now - (now % 7)

\* _is_cache_fresh(): the file exists, has an "updated" stamp, and the stamp
\* is not older than the last Monday
_is_cache_fresh == cache.updated # Absent /\ cache.updated >= _last_monday_utc

\* _load_cache(gender): a list is known by the day it was fetched
_load_cache(gender) == cache.lists[gender]

\* _save_cache(gender, players): one "updated" stamp for the whole file
_save_cache(gender) == [updated |-> now,
                        lists |-> [cache.lists EXCEPT ![gender] = now]]

MAX_RETRIES == 3

\* the loop "for attempt in range(config.MAX_RETRIES)" of a fetch against a
\* server that fails the first `failures` requests and then answers with
\* `body`: the number of requests made and whether players came back; the
\* else branch of the loop returns the empty list
RECURSIVE FetchAttempts(_, _, _)
FetchAttempts(failures, body, attempt) ==
    IF attempt >= MAX_RETRIES THEN [attempts |-> attempt, players |-> FALSE]
    ELSE IF attempt < failures THEN FetchAttempts(failures, body, attempt + 1)
    ELSE [attempts |-> attempt + 1, players |-> (body = "players")]

\* an answer without a rankings table, or with no row, gives the empty list
_fetch_from_tennis_abstract(server) == FetchAttempts(server.failures, server.body, 0)

\* an answer with no "rankings" gives the empty list
_fetch_from_rapidapi(server) == FetchAttempts(server.failures, server.body, 0)

\* a source that the call did not ask
NotCalled == [attempts |-> 0, players |-> FALSE]

\* what a call reports: the tour, whether the list came from the cache, the
\* day the list was fetched (Absent for the empty list), the day of the call,
\* what each source was asked and gave, and whether the cache file was written
Outcome(gender, from_cache, fetched, primary, fallback, saved) ==
    [gender |-> gender, from_cache |-> from_cache, fetched |-> fetched, at |-> now,
     primary |-> primary, fallback |-> fallback, saved |-> saved]

\* mutant of FetchRankings: the cache is written whatever the sources returned
FetchRankings_SaveEmpty(gender, ta, ra) ==
    IF _is_cache_fresh /\ _load_cache(gender) # Absent
    THEN /\ returned' = Outcome(gender, TRUE, _load_cache(gender), NotCalled, NotCalled, FALSE)
         /\ UNCHANGED cache
    ELSE LET primary == _fetch_from_tennis_abstract(ta)
             fallback == _fetch_from_rapidapi(ra)
         IN  IF primary.players
             THEN /\ cache' = _save_cache(gender)
                  /\ returned' = Outcome(gender, FALSE, now, primary, NotCalled, TRUE)
             ELSE /\ cache' = _save_cache(gender)
                  /\ returned' = Outcome(gender, FALSE,
                                         IF fallback.players THEN now ELSE Absent,
                                         primary, fallback, TRUE)

\* fetch_atp_rankings / fetch_wta_rankings for one tour, against the two
\* servers ta (Tennis Abstract) and ra (RapidAPI)
FetchRankings(gender, ta, ra) ==
    IF _is_cache_fresh /\ _load_cache(gender) # Absent
    THEN /\ returned' = Outcome(gender, TRUE, _load_cache(gender), NotCalled, NotCalled, FALSE)
         /\ UNCHANGED cache
    ELSE LET primary == _fetch_from_tennis_abstract(ta)
             fallback == _fetch_from_rapidapi(ra)
         IN  IF primary.players
             THEN /\ cache' = _save_cache(gender)
                  /\ returned' = Outcome(gender, FALSE, now, primary, NotCalled, TRUE)
             ELSE IF fallback.players
             THEN /\ cache' = _save_cache(gender)
                  /\ returned' = Outcome(gender, FALSE, now, primary, fallback, TRUE)
             ELSE /\ returned' = Outcome(gender, FALSE, Absent, primary, fallback, FALSE)
                  /\ UNCHANGED cache

(***************************************************************************)
(* main.py: the run from the collected entries to the written site data    *)
(***************************************************************************)
AttachDrawReasons ==
    /\ pc = "collected"
    /\ all_entries' = _attach_draw_reasons(all_entries)
    /\ pc' = "attached"
    /\ UNCHANGED <<players, raw_entries, player_entry_map, players_data, score,
                   csv_rows, html_data, normVars, cacheVars>>

BuildPlayerEntryMap ==
    /\ pc = "attached"
    /\ player_entry_map' = build_player_entry_map(score, players, all_entries)
    /\ pc' = "matched"
    /\ UNCHANGED <<players, raw_entries, all_entries, players_data, score,
                   csv_rows, html_data, normVars, cacheVars>>

WriteCsv ==
    /\ pc = "matched"
    /\ csv_rows' = write_csv(players, player_entry_map)
    /\ pc' = "csv_written"
    /\ UNCHANGED <<players, raw_entries, all_entries, player_entry_map, players_data,
                   score, html_data, normVars, cacheVars>>

WriteSiteData ==
    /\ pc = "csv_written"
    /\ players_data' = write_site_data(players, player_entry_map)
    /\ pc' = "written"
    /\ UNCHANGED <<players, raw_entries, all_entries, player_entry_map, score,
                   csv_rows, html_data, normVars, cacheVars>>

NextPipe == AttachDrawReasons \/ BuildPlayerEntryMap \/ WriteCsv \/ WriteSiteData

\* write_html on the players and the map of the run; main() does not call it
WriteHtml ==
    /\ pc = "written"
    /\ html_data' = write_html(players, player_entry_map)
    /\ pc' = "html_written"
    /\ UNCHANGED <<players, raw_entries, all_entries, player_entry_map, players_data,
                   score, csv_rows, normVars, cacheVars>>

NextPresent == NextPipe \/ WriteHtml

NoNorm == nm_a = <<>> /\ nm_b = <<>> /\ nm_ra = <<>> /\ nm_rb = <<>>

\* a run that does not touch the rankings cache
NoCache == now = 0 /\ cache = <<>> /\ returned = <<>>

(***************************************************************************)
(* Strings of the scenarios                                                *)
(***************************************************************************)
N_AneLi == <<"A","n","e"," ","L","i">>
N_LiAne == <<"L","i",","," ","A","n","e">>
N_AneLiAcc == <<"A","n","E_ACUTE"," ","L","i">>
N_ANELI == <<"A","N","E"," ","L","I">>
N_ALi == <<"A","."," ","L","i">>
T_Doha == <<"D","o","h","a">>
T_ATPDOHA == <<"A","T","P"," ","D","O","H","A">>
T_QatarOpen == <<"Q","a","t","a","r"," ","O","p","e","n">>
T_RioOpen == <<"R","i","o"," ","O","p","e","n">>
T_Rio == <<"R","i","o"," ","d","e"," ","J","a","n","e","i","r","o">>
W_Feb16 == <<"F","e","b"," ","1","6">>
W_Feb16_22 == <<"F","e","b"," ","1","6","-","2","2">>
W_Feb16Q == <<"F","e","b"," ","1","6"," ","?">>
W_16FebTo == <<"1","6"," ","F","e","b"," ","t","o"," ","2","2"," ","F","e","b">>
W_Feb18 == <<"F","e","b"," ","1","8">>
W_Feb23 == <<"F","e","b"," ","2","3">>
W_Week8 == <<"W","e","e","k"," ","8">>
C_ESP == <<"E","S","P">>
C_esp == <<"e","s","p">>
C_ARG == <<"A","R","G">>
C_arg == <<"a","r","g">>
N_AnneLi == <<"A","n","n","e"," ","L","i">>
N_ALI == <<"A","."," ","L","I">>
N_AlDeWu == <<"A","l"," ","D","e"," ","W","u">>
N_ADeWu == <<"A","."," ","D","e"," ","W","u">>
N_ADEWU == <<"A","."," ","D","E"," ","W","U">>
N_AWu == <<"A","."," ","W","u">>
N_AWU == <<"A","."," ","W","U">>
N_AnnWu == <<"A","n","n"," ","W","u">>
N_BoWu == <<"B","o"," ","W","u">>
N_CarlosAlcaraz == <<"C","a","r","l","o","s"," ","A","l","c","a","r","a","z">>
N_AlcarazCarlos == <<"A","l","c","a","r","a","z",","," ","C","a","r","l","o","s">>
N_CARLOSALCARAZ == <<"C","A","R","L","O","S"," ","A","L","C","A","R","A","Z">>

Player(name, rank, gender, country) ==
    [name |-> name, rank |-> rank, gender |-> gender, country_code |-> country]

\* a RawEntry as the collectors emit it; an absent key is the empty string
Entry(name, country, tournament, week, section, withdrawn, reason, source, gender) ==
    [player_name |-> name, player_country |-> country, tournament |-> tournament,
     tier |-> "ATP 500", week |-> week, section |-> section, withdrawn |-> withdrawn,
     reason |-> reason, source |-> source, gender |-> gender, withdrawal_type |-> ""]

\* the scores of a run in which every compared pair of names is unlike
NoFuzzy(plist, entries) ==
    [pr \in {<<normalize_name(plist[i].name), normalize_name(entries[n].player_name)>> :
               i \in 1..Len(plist), n \in 1..Len(entries)} |->
        IF pr[1] = pr[2] THEN 100 ELSE 0]

\* the scores of a run in which every pair of unlike names scores s
GivenScores(plist, entries, s) ==
    [pr \in {<<normalize_name(plist[i].name), normalize_name(entries[n].player_name)>> :
               i \in 1..Len(plist), n \in 1..Len(entries)} |->
        IF pr[1] = pr[2] THEN 100 ELSE s]

SeqsUpTo(S, n) == UNION {[1..k -> S] : k \in 0..n}

(***************************************************************************)
(* Bounds                                                                  *)
(***************************************************************************)
MaxNameLen == 4
MaxPartLen == 2

NameChars == {"a", "B", ",", " ", "-", "'", "E_ACUTE"}
PartChars == NameChars \ {","}

StringsUpTo(chars, n) == UNION {[1..k -> chars] : k \in 0..n}

(***************************************************************************)
(* Specification of a run for one ranked player whose entries collide      *)
(***************************************************************************)
MaxEntries == 3

FoldSections == {"Main Draw", "Qualifying", "Alternates"}
FoldReasons == {"", "shoulder"}

\* entries of TickTock and ITF name the player in full and carry no reason
FoldTickTock ==
    {Entry(N_AneLi, C_ESP, T_ATPDOHA, W_Feb16, sec, wd, "", "TickTockTennis", "M") :
        sec \in FoldSections, wd \in BOOLEAN}
    \cup {Entry(N_AneLi, C_ESP, T_RioOpen, W_Feb16, "Main Draw", wd, "",
                "TickTockTennis", "M") : wd \in BOOLEAN}

FoldITF ==
    {Entry(N_AneLi, C_ESP, T_Doha, W_16FebTo, sec, wd, "", "ITFEntries", "M") :
        sec \in {"Main Draw", "Qualifying"}, wd \in BOOLEAN}

\* entries of the draw PDFs: abbreviated name, Main Draw, withdrawn, no country
FoldDraws ==
    {Entry(N_ALi, <<>>, t, W_Feb16_22, "Main Draw", TRUE, r, "OfficialDraw", "M") :
        t \in {T_QatarOpen, T_RioOpen}, r \in FoldReasons}

\* main() concatenates TickTock, then the draw PDFs, then ITF
Collected(entries, S1, S5, S6, n) ==
    \E n1, n5, n6 \in 0..n :
        /\ n1 + n5 + n6 <= n
        /\ \E a \in [1..n1 -> S1], b \in [1..n5 -> S5], c \in [1..n6 -> S6] :
              entries = a \o b \o c

InitFold ==
    /\ pc = "collected"
    /\ players = <<Player(N_AneLi, 1, "M", C_ESP)>>
    /\ Collected(raw_entries, FoldTickTock, FoldDraws, FoldITF, MaxEntries)
    /\ all_entries = raw_entries
    /\ score = NoFuzzy(players, raw_entries)
    /\ player_entry_map = <<>>
    /\ players_data = <<>>
    /\ csv_rows = <<>>
    /\ html_data = <<>>
    /\ NoNorm
    /\ NoCache

SpecFold == InitFold /\ [][NextPipe]_vars

(***************************************************************************)
(* Specification of a run for one ranked player with two entries, one of   *)
(* TickTock and one of ITF                                                 *)
(***************************************************************************)
MergeSections == {"Main Draw", "Qualifying"}

MergeTickTock ==
    {Entry(nm, C_ESP, t, w, sec, FALSE, "", "TickTockTennis", "M") :
        nm \in {N_CarlosAlcaraz, N_CARLOSALCARAZ},
        t \in {T_ATPDOHA, T_Doha, T_RioOpen},
        w \in {W_Feb16, W_Feb16Q, W_Feb18, W_Week8},
        sec \in MergeSections}

MergeITF ==
    {Entry(nm, C_ESP, t, w, sec, wd, "", "ITFEntries", "M") :
        nm \in {N_AlcarazCarlos, N_CarlosAlcaraz},
        t \in {T_Doha, T_QatarOpen, T_RioOpen},
        w \in {W_Feb16_22, W_16FebTo, W_Feb18, W_Week8},
        sec \in MergeSections,
        wd \in BOOLEAN}

InitMerge ==
    /\ pc = "collected"
    /\ players = <<Player(N_CarlosAlcaraz, 1, "M", C_ESP)>>
    /\ \E a \in MergeTickTock, b \in MergeITF : raw_entries = <<a, b>>
    /\ all_entries = raw_entries
    /\ score = NoFuzzy(players, raw_entries)
    /\ player_entry_map = <<>>
    /\ players_data = <<>>
    /\ csv_rows = <<>>
    /\ html_data = <<>>
    /\ NoNorm
    /\ NoCache

SpecMerge == InitMerge /\ [][NextPipe]_vars

(***************************************************************************)
(* Specification of a run for two ranked players whose genders and whose   *)
(* entries' genders vary                                                   *)
(***************************************************************************)
MaxCandidates == 2

Genders == {"M", "F", ""}

GenderEntries ==
    {Entry(nm, C_ESP, T_Doha, W_Feb16, "Main Draw", FALSE, "", "TickTockTennis", g) :
        nm \in {N_AneLi, N_AnneLi}, g \in Genders}

InitGender ==
    /\ pc = "collected"
    /\ \E g1, g2 \in Genders :
          players = <<Player(N_AneLi, 1, g1, C_ESP), Player(N_AnneLi, 2, g2, C_ESP)>>
    /\ raw_entries \in SeqsUpTo(GenderEntries, MaxCandidates)
    /\ all_entries = raw_entries
    /\ \E s \in {0, 96} : score = GivenScores(players, raw_entries, s)
    /\ player_entry_map = <<>>
    /\ players_data = <<>>
    /\ csv_rows = <<>>
    /\ html_data = <<>>
    /\ NoNorm
    /\ NoCache

SpecGender == InitGender /\ [][NextPipe]_vars

(***************************************************************************)
(* Specification of a run for one ranked player whose entries all carry    *)
(* another name, under every score and country                             *)
(***************************************************************************)
ScoreVals == {0, 84, 85, 88, 94, 95, 100}

Countries == {C_ARG, C_arg, C_ESP, <<>>}

FuzzyEntries ==
    {Entry(N_AnneLi, c, T_Doha, W_Feb16, "Main Draw", FALSE, "", "TickTockTennis", g) :
        c \in Countries, g \in {"M", "F"}}

InitFuzzy ==
    /\ pc = "collected"
    /\ \E c \in {C_ARG, <<>>} : players = <<Player(N_AneLi, 1, "M", c)>>
    /\ raw_entries \in SeqsUpTo(FuzzyEntries, MaxCandidates)
    /\ all_entries = raw_entries
    /\ \E s \in ScoreVals : score = GivenScores(players, raw_entries, s)
    /\ player_entry_map = <<>>
    /\ players_data = <<>>
    /\ csv_rows = <<>>
    /\ html_data = <<>>
    /\ NoNorm
    /\ NoCache

SpecFuzzy == InitFuzzy /\ [][NextPipe]_vars

(***************************************************************************)
(* Specification of a run for one ranked player, one entry in the player's *)
(* full name, one withdrawal of the draw PDFs and at most one more entry   *)
(***************************************************************************)
\* the abbreviations the draw PDFs can print for a full name of the scenarios
DrawNames(full) == IF full = N_AlDeWu THEN {N_ADeWu, N_ADEWU, N_AWu, N_AWU}
                   ELSE {N_ALi, N_ALI}

\* the player's own entry, of TickTock or of ITF
ExpandOwn(full) ==
    {Entry(full, C_ESP, t, w, sec, wd, "", src, "M") :
        t \in {T_ATPDOHA, T_RioOpen}, w \in {W_Feb16, W_Feb23},
        sec \in {"Main Draw", "Qualifying"}, wd \in BOOLEAN,
        src \in {"TickTockTennis", "ITFEntries"}}

ExpandDraws(full) ==
    {Entry(nm, <<>>, t, W_Feb16_22, "Main Draw", TRUE, "shoulder", "OfficialDraw", g) :
        nm \in DrawNames(full), t \in {T_QatarOpen, T_RioOpen}, g \in {"M", "F"}}

\* one more entry of TickTock: of another player, or of a name with the same
\* initial and surname
ExpandOthers ==
    {<<>>,
     <<Entry(N_BoWu, C_ESP, T_ATPDOHA, W_Feb16, "Main Draw", FALSE, "", "TickTockTennis", "M")>>,
     <<Entry(N_AnnWu, C_ESP, T_ATPDOHA, W_Feb16, "Main Draw", TRUE, "", "TickTockTennis", "M")>>,
     <<Entry(N_AnneLi, C_ESP, T_ATPDOHA, W_Feb16, "Main Draw", TRUE, "", "TickTockTennis", "M")>>}

InitExpand ==
    /\ pc = "collected"
    /\ \E full \in {N_AlDeWu, N_AneLi} :
          /\ players = <<Player(full, 1, "M", C_ESP)>>
          /\ \E other \in ExpandOthers, own \in ExpandOwn(full), de \in ExpandDraws(full) :
                raw_entries = IF own.source = "TickTockTennis"
                              THEN other \o <<own, de>>
                              ELSE other \o <<de, own>>
    /\ all_entries = raw_entries
    /\ score = NoFuzzy(players, raw_entries)
    /\ player_entry_map = <<>>
    /\ players_data = <<>>
    /\ csv_rows = <<>>
    /\ html_data = <<>>
    /\ NoNorm
    /\ NoCache

SpecExpand == InitExpand /\ [][NextPipe]_vars

(***************************************************************************)
(* Specification of a run with full names of TickTock and withdrawals of   *)
(* the draw PDFs, with and without a full name to expand to                *)
(***************************************************************************)
MaxDraws == 2

N_AJLi == <<"A",".","J","."," ","L","i">>
N_ADeLi == <<"A","."," ","D","e"," ","L","i">>
N_BXu == <<"B","."," ","X","u">>

DropFullNames ==
    {Entry(nm, C_ESP, T_ATPDOHA, W_Feb16, "Main Draw", FALSE, "", "TickTockTennis", "M") :
        nm \in {N_AneLi, N_AJLi, N_BoWu}}

DropDraws ==
    {Entry(nm, <<>>, T_QatarOpen, W_Feb16_22, "Main Draw", TRUE, "shoulder",
           "OfficialDraw", g) :
        nm \in {N_ALi, N_ALI, N_ADeLi, N_BXu}, g \in {"M", "F"}}

InitDrop ==
    /\ pc = "collected"
    /\ players = <<Player(N_AneLi, 1, "M", C_ESP)>>
    /\ \E full \in SeqsUpTo(DropFullNames, 2), draws \in SeqsUpTo(DropDraws, MaxDraws) :
          /\ draws # <<>>
          /\ raw_entries = full \o draws
    /\ all_entries = raw_entries
    /\ score = NoFuzzy(players, raw_entries)
    /\ player_entry_map = <<>>
    /\ players_data = <<>>
    /\ csv_rows = <<>>
    /\ html_data = <<>>
    /\ NoNorm
    /\ NoCache

SpecDrop == InitDrop /\ [][NextPipe]_vars

(***************************************************************************)
(* Specification of a run in which full names of TickTock share their      *)
(* initial and their surname or last token                                 *)
(***************************************************************************)
MaxFull == 2

N_AneDeLi == <<"A","n","e"," ","D","e"," ","L","i">>

AmbiguousFullNames ==
    {Entry(nm, C_ESP, T_ATPDOHA, W_Feb16, "Main Draw", FALSE, "", "TickTockTennis", "M") :
        nm \in {N_AneLi, N_AnneLi, N_AneDeLi, N_BoWu}}

AmbiguousDraws ==
    {Entry(nm, <<>>, T_QatarOpen, W_Feb16_22, "Main Draw", TRUE, "shoulder",
           "OfficialDraw", g) :
        nm \in {N_ALi, N_ALI, N_ADeLi}, g \in {"M", "F"}}

InitAmbiguous ==
    /\ pc = "collected"
    /\ players = <<Player(N_AneLi, 1, "M", C_ESP)>>
    /\ \E full \in SeqsUpTo(AmbiguousFullNames, MaxFull),
          draws \in SeqsUpTo(AmbiguousDraws, MaxDraws) :
          /\ draws # <<>>
          /\ raw_entries = full \o draws
    /\ all_entries = raw_entries
    /\ score = NoFuzzy(players, raw_entries)
    /\ player_entry_map = <<>>
    /\ players_data = <<>>
    /\ csv_rows = <<>>
    /\ html_data = <<>>
    /\ NoNorm
    /\ NoCache

SpecAmbiguous == InitAmbiguous /\ [][NextPipe]_vars

(***************************************************************************)
(* Specification of a run in which withdrawals of TickTock, with and       *)
(* without a reason, meet draw withdrawals of another tournament and week  *)
(***************************************************************************)
ReasonFullNames ==
    {Entry(N_AneLi, C_ESP, T_ATPDOHA, W_Feb16, "Main Draw", FALSE, "", "TickTockTennis", "M"),
     Entry(N_AneLi, C_ESP, T_ATPDOHA, W_Feb16, "Main Draw", TRUE, "illness",
           "TickTockTennis", "M")}
    \cup {Entry(nm, C_ESP, T_ATPDOHA, W_Feb16, "Main Draw", TRUE, "", "TickTockTennis", "M") :
            nm \in {N_AneLi, N_AneDeLi, N_AJLi}}

ReasonDraws ==
    {Entry(nm, <<>>, T_RioOpen, W_Feb23, "Main Draw", TRUE, r, "OfficialDraw", "M") :
        nm \in {N_ALi, N_ADeLi}, r \in {"", "shoulder"}}
    \cup {Entry(N_ALi, <<>>, T_RioOpen, W_Feb23, "Main Draw", TRUE, "knee",
                "OfficialDraw", "F")}

InitReason ==
    /\ pc = "collected"
    /\ players = <<Player(N_AneLi, 1, "M", C_ESP)>>
    /\ \E full \in SeqsUpTo(ReasonFullNames, MaxFull),
          draws \in SeqsUpTo(ReasonDraws, MaxDraws) :
          /\ draws # <<>>
          /\ raw_entries = full \o draws
    /\ all_entries = raw_entries
    /\ score = NoFuzzy(players, raw_entries)
    /\ player_entry_map = <<>>
    /\ players_data = <<>>
    /\ csv_rows = <<>>
    /\ html_data = <<>>
    /\ NoNorm
    /\ NoCache

SpecReason == InitReason /\ [][NextPipe]_vars

(***************************************************************************)
(* Specification of a run whose map is given to write_csv, write_site_data *)
(* and write_html                                                          *)
(***************************************************************************)
MaxPresented == 2

PresentTickTock ==
    {Entry(N_AneLi, C_ESP, T_ATPDOHA, W_Feb16, sec, wd, "", "TickTockTennis", "M") :
        sec \in {"Main Draw", "Qualifying"}, wd \in BOOLEAN}

PresentITF ==
    {Entry(N_AneLi, C_ESP, T_Doha, W_16FebTo, sec, wd, "", "ITFEntries", "M") :
        sec \in {"Main Draw", "Qualifying"}, wd \in BOOLEAN}

InitPresent ==
    /\ pc = "collected"
    /\ players = <<Player(N_AneLi, 1, "M", C_ESP)>>
    /\ Collected(raw_entries, PresentTickTock, {}, PresentITF, MaxPresented)
    /\ all_entries = raw_entries
    /\ score = NoFuzzy(players, raw_entries)
    /\ player_entry_map = <<>>
    /\ players_data = <<>>
    /\ csv_rows = <<>>
    /\ html_data = <<>>
    /\ NoNorm
    /\ NoCache

SpecPresent == InitPresent /\ [][NextPresent]_vars

(***************************************************************************)
(* Specification of a run in which a TickTock or Spazio entry and          *)
(* withdrawals of the draw PDFs share one dedup key                        *)
(***************************************************************************)
\* a RawEntry with its optional withdrawal_type present
Typed(entry, wtype) == [entry EXCEPT !.withdrawal_type = wtype]

OverwriteTickTock ==
    {Entry(N_AneLi, C_ESP, T_Doha, W_Feb16, "Main Draw", wd, "", "TickTockTennis", "M") :
        wd \in BOOLEAN}

\* entries of the Spazio collector: ALL-CAPS name with the tour prefix, week
\* as a range, withdrawal_type on a withdrawal
OverwriteSpazio ==
    {Typed(Entry(N_AneLi, C_ESP, T_ATPDOHA, W_Feb16_22, "Main Draw", wd, "",
                 "SpazioTennis", "M"), wt) :
        wd \in BOOLEAN, wt \in {"", "late"}} \ 
    {Typed(Entry(N_AneLi, C_ESP, T_ATPDOHA, W_Feb16_22, "Main Draw", FALSE, "",
                 "SpazioTennis", "M"), "late")}

\* withdrawals of the draw PDFs: abbreviated name, no withdrawal_type
OverwriteDraws ==
    {Entry(N_ALi, <<>>, T_QatarOpen, W_Feb16_22, "Main Draw", TRUE, r,
           "OfficialDraw", "M") :
        r \in {"", "shoulder", "illness"}}

InitOverwrite ==
    /\ pc = "collected"
    /\ players = <<Player(N_AneLi, 1, "M", C_ESP)>>
    /\ \E tt \in SeqsUpTo(OverwriteTickTock, 1), sp \in SeqsUpTo(OverwriteSpazio, 1),
          draws \in SeqsUpTo(OverwriteDraws, MaxDraws) :
          /\ tt \o sp # <<>>
          /\ draws # <<>>
          /\ raw_entries = tt \o sp \o draws
    /\ all_entries = raw_entries
    /\ score = NoFuzzy(players, raw_entries)
    /\ player_entry_map = <<>>
    /\ players_data = <<>>
    /\ csv_rows = <<>>
    /\ html_data = <<>>
    /\ NoNorm
    /\ NoCache

SpecOverwrite == InitOverwrite /\ [][NextPipe]_vars

(***************************************************************************)
(* Specification of normalize_name applied to its own result               *)
(***************************************************************************)
NoPipe == /\ players = <<>>
          /\ raw_entries = <<>>
          /\ all_entries = <<>>
          /\ player_entry_map = <<>>
          /\ players_data = <<>>
          /\ csv_rows = <<>>
          /\ html_data = <<>>
          /\ score = <<>>

InitIdem == /\ pc = "norm_start"
            /\ nm_a \in StringsUpTo(NameChars, MaxNameLen)
            /\ nm_b = <<>>
            /\ nm_ra = <<>>
            /\ nm_rb = <<>>
            /\ NoPipe
            /\ NoCache

NormalizeOnce == /\ pc = "norm_start"
                 /\ nm_ra' = normalize_name(nm_a)
                 /\ pc' = "norm_once"
                 /\ UNCHANGED <<nm_a, nm_b, nm_rb, pipeVars, cacheVars>>

NormalizeAgain == /\ pc = "norm_once"
                  /\ nm_rb' = normalize_name(nm_ra)
                  /\ pc' = "norm_twice"
                  /\ UNCHANGED <<nm_a, nm_b, nm_ra, pipeVars, cacheVars>>

NextIdem == NormalizeOnce \/ NormalizeAgain

SpecIdem == InitIdem /\ [][NextIdem]_vars

(***************************************************************************)
(* Specification of normalize_name on the two spellings of one name        *)
(***************************************************************************)
InitComma == /\ pc = "pair_start"
             /\ \E first \in StringsUpTo(PartChars, MaxPartLen),
                   last \in StringsUpTo(PartChars, MaxPartLen) :
                    /\ nm_a = last \o <<",", " ">> \o first
                    /\ nm_b = first \o <<" ">> \o last
             /\ nm_ra = <<>>
             /\ nm_rb = <<>>
             /\ NoPipe
             /\ NoCache

NormalizePair == /\ pc = "pair_start"
                 /\ nm_ra' = normalize_name(nm_a)
                 /\ nm_rb' = normalize_name(nm_b)
                 /\ pc' = "pair_done"
                 /\ UNCHANGED <<nm_a, nm_b, pipeVars, cacheVars>>

NextComma == NormalizePair

SpecComma == InitComma /\ [][NextComma]_vars

\* C9: normalize_name(normalize_name(x)) = normalize_name(x) for every name x,
\* names with more than one comma included.
C9_Idempotent == pc = "norm_twice" => nm_rb = nm_ra

\* C10: for comma-free First and Last, normalize_name("Last, First") equals
\* normalize_name("First Last").
C10_CommaOrder == pc = "pair_done" => nm_ra = nm_rb

\* a pair with both parts non-blank whose spellings have been normalised
C10_Witness == /\ pc = "pair_done"
               /\ Len(nm_ra) >= 3
               /\ InSeq(" ", nm_ra)
               /\ nm_a # nm_b

(***************************************************************************)
(* Specification of _normalize_tournament_name applied to its own result   *)
(***************************************************************************)
MaxRepeat == 2

T_DOHA == <<"D","O","H","A">>
T_Finals == <<"F","i","n","a","l","s">>
T_NittoATPFinals == <<"N","i","t","t","o"," ","A","T","P"," ","F","i","n","a","l","s">>
TourPrefixes == {<<"A","T","P"," ">>, <<"W","T","A"," ">>}
ChSuffixes == {<<" ","(","C","H"," ","5","0",")">>}

\* the concatenations of at most n members of S
RECURSIVE Runs(_, _)
Runs(S, n) == IF n = 0 THEN {<<>>}
              ELSE Runs(S, n - 1) \cup {p \o r : p \in S, r \in Runs(S, n - 1)}

\* the values of the alias table, and names under repeated prefixes and suffixes
CanonInputs ==
    {TOURNAMENT_ALIASES[i][2] : i \in 1..Len(TOURNAMENT_ALIASES)}
    \cup {pre \o base \o suf :
            pre \in Runs(TourPrefixes, MaxRepeat),
            base \in {T_Doha, T_DOHA, T_QatarOpen, T_Finals, T_NittoATPFinals},
            suf \in Runs(ChSuffixes, MaxRepeat)}

InitCanon == /\ pc = "canon_start"
             /\ nm_a \in CanonInputs
             /\ nm_b = <<>>
             /\ nm_ra = <<>>
             /\ nm_rb = <<>>
             /\ NoPipe
             /\ NoCache

CanonOnce == /\ pc = "canon_start"
             /\ nm_ra' = _normalize_tournament_name(nm_a)
             /\ pc' = "canon_once"
             /\ UNCHANGED <<nm_a, nm_b, nm_rb, pipeVars, cacheVars>>

CanonAgain == /\ pc = "canon_once"
              /\ nm_rb' = _normalize_tournament_name(nm_ra)
              /\ pc' = "canon_twice"
              /\ UNCHANGED <<nm_a, nm_b, nm_ra, pipeVars, cacheVars>>

NextCanon == CanonOnce \/ CanonAgain

SpecCanon == InitCanon /\ [][NextCanon]_vars

\* C11: _normalize_tournament_name(_normalize_tournament_name(x)) equals
\* _normalize_tournament_name(x) for every tournament string x, the values of
\* the alias table and strings with a repeated tour prefix or a repeated
\* '(CH nn)' suffix included.
C11_CanonIdempotent == pc = "canon_twice" => nm_rb = nm_ra

(***************************************************************************)
(* Specification of the week functions on a set of labels                  *)
(***************************************************************************)
MaxWeeks == 3

W_Jan30 == <<"J","a","n"," ","3","0">>
W_Feb2 == <<"F","e","b"," ","2">>
W_Feb21 == <<"F","e","b"," ","2","1">>
W_TBD == <<"T","B","D">>
W_Feb1 == <<"F","e","b"," ","1">>
W_Feb5 == <<"F","e","b"," ","5">>
W_Feb9 == <<"F","e","b"," ","9">>
W_Foo12 == <<"F","o","o"," ","1","2">>

WeekLabels == {W_Jan30, W_Feb1, W_Feb2, W_Feb5, W_Feb9, W_Feb16, W_Feb16_22, W_16FebTo,
               W_Feb18, W_Feb21, W_Feb23, W_Week8, W_TBD, W_Foo12, <<>>}

InitWeeks == /\ pc = "weeks_start"
             /\ nm_a \in {S \in SUBSET WeekLabels : Cardinality(S) <= MaxWeeks}
             /\ nm_b = <<>>
             /\ nm_ra = <<>>
             /\ nm_rb = <<>>
             /\ NoPipe
             /\ NoCache

\* merge_map = _merge_close_weeks(weeks)
MergeCloseWeeks == /\ pc = "weeks_start"
                   /\ nm_ra' = _merge_close_weeks(nm_a)
                   /\ pc' = "weeks_merged"
                   /\ UNCHANGED <<nm_a, nm_b, nm_rb, pipeVars, cacheVars>>

\* the start date, the normalized label and the sort key of every label
KeyWeeks == /\ pc = "weeks_merged"
            /\ nm_rb' = [w \in nm_a |-> [date |-> _extract_start_date(w),
                                         norm |-> _normalize_week(w),
                                         key |-> _week_sort_key(w)]]
            /\ pc' = "weeks_keyed"
            /\ UNCHANGED <<nm_a, nm_b, nm_ra, pipeVars, cacheVars>>

\* the iteration orders of a set
OrdersOf(S) ==
    {f \in [1..Cardinality(S) -> S] : \A i, j \in 1..Cardinality(S) : f[i] = f[j] => i = j}

\* merge_map when the loop of line 73 iterates the set in some order
MergeCloseWeeksInOrder ==
    /\ pc = "weeks_keyed"
    /\ \E order \in OrdersOf(nm_a) :
          nm_b' = [order |-> order, merge_map |-> MergeInOrder(order)]
    /\ pc' = "weeks_ordered"
    /\ UNCHANGED <<nm_a, nm_ra, nm_rb, pipeVars, cacheVars>>

NextWeeks == MergeCloseWeeks \/ KeyWeeks \/ MergeCloseWeeksInOrder

SpecWeeks == InitWeeks /\ [][NextWeeks]_vars

(***************************************************************************)
(* Specification of the rankings cache over the days of two weeks          *)
(***************************************************************************)
MaxDay == 8

\* a server fails its first requests, up to one more than a fetch makes,
\* and then answers with players or with none
MaxFailures == 4

Servers == [failures : 0..MaxFailures, body : {"players", "empty"}]

InitCache ==
    /\ pc = "rankings"
    /\ now = 0
    /\ cache = [updated |-> Absent, lists |-> [g \in {"M", "F"} |-> Absent]]
    /\ returned = [gender |-> "", from_cache |-> FALSE, fetched |-> Absent, at |-> 0,
                   primary |-> NotCalled, fallback |-> NotCalled, saved |-> FALSE]
    /\ NoPipe
    /\ NoNorm

NextDay == /\ now < MaxDay
           /\ now' = now + 1
           /\ UNCHANGED <<pc, cache, returned, pipeVars, normVars>>

fetch_atp_rankings == /\ pc = "rankings"
                      /\ \E ta, ra \in Servers : FetchRankings("M", ta, ra)
                      /\ UNCHANGED <<pc, now, pipeVars, normVars>>

fetch_wta_rankings == /\ pc = "rankings"
                      /\ \E ta, ra \in Servers : FetchRankings("F", ta, ra)
                      /\ UNCHANGED <<pc, now, pipeVars, normVars>>

NextCache == NextDay \/ fetch_atp_rankings \/ fetch_wta_rankings

SpecCache == InitCache /\ [][NextCache]_vars

(***************************************************************************)
(* Specification of a run for one ranked player whose entries name weeks   *)
(* in any order, dated or not                                              *)
(***************************************************************************)
MaxOrdered == 3

OrderWeeks == {W_Feb23, W_Feb16, W_Jan30, W_Week8, <<>>}

OrderTickTock ==
    {Entry(N_AneLi, C_ESP, t, w, "Main Draw", FALSE, "", "TickTockTennis", "M") :
        t \in {T_ATPDOHA, T_RioOpen}, w \in OrderWeeks}

InitOrder ==
    /\ pc = "collected"
    /\ players = <<Player(N_AneLi, 1, "M", C_ESP)>>
    /\ raw_entries \in SeqsUpTo(OrderTickTock, MaxOrdered)
    /\ all_entries = raw_entries
    /\ score = NoFuzzy(players, raw_entries)
    /\ player_entry_map = <<>>
    /\ players_data = <<>>
    /\ csv_rows = <<>>
    /\ html_data = <<>>
    /\ NoNorm
    /\ NoCache

SpecOrder == InitOrder /\ [][NextPipe]_vars

(***************************************************************************)
(* Specification of a run for two ranked players whose entries name weeks  *)
(* a few days apart                                                        *)
(***************************************************************************)
MaxIsolated == 3

W_Feb12 == <<"F","e","b"," ","1","2">>

IsolationTickTock ==
    {Entry(N_AneLi, C_ESP, T_ATPDOHA, w, "Main Draw", FALSE, "", "TickTockTennis", "M") :
        w \in {W_Feb16, W_Feb21}}
    \cup {Entry(N_BoWu, C_ESP, t, w, "Main Draw", FALSE, "", "TickTockTennis", "M") :
            t \in {T_ATPDOHA, T_RioOpen}, w \in {W_Feb12, W_Feb23}}

InitIsolation ==
    /\ pc = "collected"
    /\ players = <<Player(N_AneLi, 1, "M", C_ESP), Player(N_BoWu, 2, "M", C_ESP)>>
    /\ raw_entries \in SeqsUpTo(IsolationTickTock, MaxIsolated)
    /\ all_entries = raw_entries
    /\ score = NoFuzzy(players, raw_entries)
    /\ player_entry_map = <<>>
    /\ players_data = <<>>
    /\ csv_rows = <<>>
    /\ html_data = <<>>
    /\ NoNorm
    /\ NoCache

SpecIsolation == InitIsolation /\ [][NextPipe]_vars

(***************************************************************************)
(* Specification of a run for one ranked player whose entries name the     *)
(* sections of TickTock, the ones outside SECTION_RANK included            *)
(***************************************************************************)
MaxSections == 3

\* the values of SECTION_MAP that the run meets
TickTockSections == {"Main Draw", "Qualifying", "Alternates", "Wild Card", "Qualifying WC"}

SectionsTickTock ==
    {Entry(N_AneLi, C_ESP, T_ATPDOHA, W_Feb16, sec, wd, "", "TickTockTennis", "M") :
        sec \in TickTockSections, wd \in BOOLEAN}
    \cup {Entry(N_AneLi, C_ESP, T_RioOpen, W_Feb16, "Main Draw", FALSE, "",
                "TickTockTennis", "M")}

InitSections ==
    /\ pc = "collected"
    /\ players = <<Player(N_AneLi, 1, "M", C_ESP)>>
    /\ raw_entries \in SeqsUpTo(SectionsTickTock, MaxSections)
    /\ all_entries = raw_entries
    /\ score = NoFuzzy(players, raw_entries)
    /\ player_entry_map = <<>>
    /\ players_data = <<>>
    /\ csv_rows = <<>>
    /\ html_data = <<>>
    /\ NoNorm
    /\ NoCache

SpecSections == InitSections /\ [][NextPipe]_vars

\* C19: whenever fetch_atp_rankings or fetch_wta_rankings returns rankings
\* from the cache instead of fetching, the cached list of that tour was
\* fetched and saved at or after 00:00 UTC of the most recent Monday.
C19_CacheFreshness ==
    (pc = "rankings" /\ returned.from_cache)
      => returned.fetched >= returned.at - (returned.at % 7)

WeeksMerged == pc \in {"weeks_merged", "weeks_keyed"}

\* C12: the map returned by _merge_close_weeks has exactly the input set as
\* its domain, every value is a member of the input set, and every canonical
\* label maps to itself.
C12_MergeClosure ==
    WeeksMerged => /\ DOMAIN nm_ra = nm_a
                   /\ \A w \in nm_a : /\ nm_ra[w] \in nm_a
                                      /\ nm_ra[nm_ra[w]] = nm_ra[w]

\* a set with a label merged into another one and a label without a date
C12_Witness ==
    /\ WeeksMerged
    /\ \E w \in nm_a : nm_ra[w] # w
    /\ \E w \in nm_a : _extract_start_date(w) = None /\ w # <<>>

\* day of a non-leap year of a (month, day) pair
DaysBefore == <<0, 31, 59, 90, 120, 151, 181, 212, 243, 273, 304, 334>>
CalendarDay(date) == DaysBefore[date[1]] + date[2]

\* C13: if label a is the earliest member of its cluster and label b has a
\* calendar start date at most 5 days after a's, also across a month
\* boundary, then _merge_close_weeks maps b to a.
C13_FiveDayClustering ==
    WeeksMerged =>
      \A a, b \in nm_a :
        ( /\ _extract_start_date(a) # None
          /\ _extract_start_date(b) # None
          /\ nm_ra[a] = a
          /\ CalendarDay(_extract_start_date(b)) >= CalendarDay(_extract_start_date(a))
          /\ CalendarDay(_extract_start_date(b)) - CalendarDay(_extract_start_date(a)) <= 5 )
        => nm_ra[b] = a

\* C14: for a week string w that _extract_start_date cannot parse,
\* _normalize_week(w) = w, _merge_close_weeks maps w to itself and no other
\* label to w, and _week_sort_key(w) is greater than the sort key of every
\* parseable week.
C14_UnparseableWeek ==
    pc = "weeks_keyed" =>
      \A w \in nm_a :
        nm_rb[w].date = None =>
          /\ nm_rb[w].norm = w
          /\ nm_ra[w] = w
          /\ \A v \in nm_a \ {w} : nm_ra[v] # w
          /\ \A v \in nm_a : nm_rb[v].date # None => KeyLess(nm_rb[v].key, nm_rb[w].key)

\* 'Week 8' next to two dated labels that were merged
C14_Witness ==
    /\ pc = "weeks_keyed"
    /\ W_Week8 \in nm_a
    /\ nm_rb[W_Week8].date = None
    /\ \E v \in nm_a : nm_rb[v].date # None /\ nm_ra[v] # v

(***************************************************************************)
(* Properties of matching                                                  *)
(***************************************************************************)
Matched == pc \in {"matched", "csv_written", "written"}

\* the entries build_player_entry_map returned for players[i]
ResultOf(i) == player_entry_map[<<players[i].name, players[i].gender>>]

Known(g) == g # ""

\* C6: for every player p and every entry e matched to p, on the exact path
\* and on the fuzzy fallback alike, p's gender and e's gender are never both
\* known and different.
C6_GenderSafety ==
    Matched => \A i \in 1..Len(players) :
                 \A n \in 1..Len(ResultOf(i)) :
                    ~ ( /\ Known(players[i].gender)
                        /\ Known(ResultOf(i)[n].gender)
                        /\ players[i].gender # ResultOf(i)[n].gender )

\* one player matched on the exact path and one on the fuzzy fallback, each
\* with an entry of the other gender left out
C6_Witness ==
    /\ Matched
    /\ Len(all_entries) = 2
    /\ all_entries[1].player_name = N_AneLi /\ all_entries[1].gender = "M"
    /\ all_entries[2].player_name = N_AneLi /\ all_entries[2].gender = "F"
    /\ players[1].gender = "M" /\ players[2].gender = "F"
    /\ ResultOf(1) = <<all_entries[1]>>
    /\ ResultOf(2) = <<all_entries[2]>>

\* has players[i] no entry of its own normalized name that the gender allows
NoExactMatch(i) ==
    \A n \in 1..Len(all_entries) :
        \/ normalize_name(all_entries[n].player_name) # normalize_name(players[i].name)
        \/ ( /\ Known(players[i].gender) /\ Known(all_entries[n].gender)
             /\ players[i].gender # all_entries[n].gender )

\* the entries the fuzzy fallback compares players[i] with
IsCandidate(i, n) ==
    /\ players[i].gender \in {"M", "F"} => all_entries[n].gender = players[i].gender
    /\ ~ ( /\ Known(players[i].gender) /\ Known(all_entries[n].gender)
           /\ players[i].gender # all_entries[n].gender )
    /\ normalize_name(all_entries[n].player_name) # normalize_name(players[i].name)

\* the acceptance rule as the claim words it
RuleAccepts(s, pcountry, ecountry) ==
    \/ s >= 95
    \/ /\ 85 <= s /\ s < 95
       /\ pcountry # <<>> /\ ecountry # <<>>
       /\ StrLower(pcountry) = StrLower(ecountry)

\* C7: in the fuzzy fallback a candidate entry whose normalized name differs
\* from the player's is accepted if and only if its score is at least 95, or
\* at least 85 and below 95 with both country codes non-empty and equal
\* ignoring case; a score below 85 is never accepted.
C7_FuzzyAcceptance ==
    Matched => \A i \in 1..Len(players) :
      NoExactMatch(i) =>
        \A n \in 1..Len(all_entries) :
          IsCandidate(i, n) =>
            LET e == all_entries[n]
                s == score[<<normalize_name(players[i].name), normalize_name(e.player_name)>>]
                accepted == \E m \in 1..Len(ResultOf(i)) : ResultOf(i)[m] = e
            IN  /\ accepted <=> RuleAccepts(s, players[i].country_code, e.player_country)
                /\ s < 85 => ~accepted

\* a player of country ARG and two candidates of score 88, of countries ARG
\* and ESP: the ARG entry alone is matched
C7_Witness ==
    /\ Matched
    /\ players[1].country_code = C_ARG
    /\ Len(all_entries) = 2
    /\ all_entries[1].gender = "M" /\ all_entries[2].gender = "M"
    /\ all_entries[1].player_country = C_ARG
    /\ all_entries[2].player_country = C_ESP
    /\ score[<<normalize_name(N_AneLi), normalize_name(N_AnneLi)>>] = 88
    /\ ResultOf(1) = <<all_entries[1]>>

CsvWritten == pc \in {"csv_written", "written"}

\* the rows write_csv wrote for players[i]
CsvRowsFor(i) == {r \in 1..Len(csv_rows) :
                    /\ csv_rows[r].Player = players[i].name
                    /\ csv_rows[r].Rank = players[i].rank}

\* C15: build_player_entry_map returns a map with a key for every ranked
\* player; a player with neither an exact nor an accepted fuzzy match maps to
\* the empty list, and write_csv renders each such player as exactly one row
\* whose Tournament is 'No entries found'.
C15_NoMatchIsValue ==
    /\ Matched =>
          \A i \in 1..Len(players) :
             /\ <<players[i].name, players[i].gender>> \in DOMAIN player_entry_map
             /\ ( /\ NoExactMatch(i)
                  /\ \A n \in 1..Len(all_entries) :
                        IsCandidate(i, n) =>
                          ~RuleAccepts(score[<<normalize_name(players[i].name),
                                               normalize_name(all_entries[n].player_name)>>],
                                       players[i].country_code,
                                       all_entries[n].player_country) )
                => ResultOf(i) = <<>>
    /\ CsvWritten =>
          \A i \in 1..Len(players) :
             ResultOf(i) = <<>> =>
                /\ Cardinality(CsvRowsFor(i)) = 1
                /\ \A r \in CsvRowsFor(i) : csv_rows[r].Tournament = T_NoEntriesFound

\* the first player has an entry and a row for it, the second has entries of
\* the other gender only and the row 'No entries found'
C15_Witness ==
    /\ CsvWritten
    /\ all_entries # <<>>
    /\ ResultOf(1) # <<>>
    /\ ResultOf(2) = <<>>
    /\ \E n \in 1..Len(all_entries) :
          /\ all_entries[n].player_name = players[2].name
          /\ all_entries[n].gender # players[2].gender
    /\ \E r \in CsvRowsFor(2) : csv_rows[r].Tournament = T_NoEntriesFound

(***************************************************************************)
(* Properties of the written site data                                     *)
(***************************************************************************)
\* the matched entries of the player of players_data[i]
MatchedOf(i) == player_entry_map[<<players_data[i].name, players_data[i].gender>>]
RecordsOf(i) == players_data[i].entries
Written == pc = "written"

\* C1: for one ranked player and two active entries of the player's gender
\* whose names normalize to the player's, whose tournaments canonicalize to
\* one name, whose weeks have the same start date and whose sections are
\* equal, matching followed by write_site_data yields exactly one record, with
\* the canonical tournament, the week as 'Mon D', that section and
\* withdrawn = FALSE.
C1_EndToEndMerge ==
    (Written /\ Len(raw_entries) = 2 /\ Len(players) = 1) =>
      LET p == players[1]
          e1 == raw_entries[1]
          e2 == raw_entries[2]
          d1 == _extract_start_date(e1.week)
          d2 == _extract_start_date(e2.week)
      IN  ( /\ ~e1.withdrawn /\ ~e2.withdrawn
            /\ e1.gender = p.gender /\ e2.gender = p.gender
            /\ normalize_name(e1.player_name) = normalize_name(p.name)
            /\ normalize_name(e2.player_name) = normalize_name(p.name)
            /\ _normalize_tournament_name(e1.tournament)
                 = _normalize_tournament_name(e2.tournament)
            /\ d1 # None /\ d1 = d2
            /\ e1.section = e2.section )
          => /\ Len(players_data) = 1
             /\ Len(RecordsOf(1)) = 1
             /\ RecordsOf(1)[1].tournament = _normalize_tournament_name(e1.tournament)
             /\ RecordsOf(1)[1].week = MONTHS[d1[1]] \o <<" ">> \o DecStr(d1[2])
             /\ RecordsOf(1)[1].section = e1.section
             /\ ~RecordsOf(1)[1].withdrawn

\* 'ATP DOHA' / 'Feb 16' by 'Carlos Alcaraz' and 'Doha' / 'Feb 16-22' by
\* 'Alcaraz, Carlos' written as the single record Doha / Feb 16 / Main Draw
C1_Witness ==
    /\ Written
    /\ Len(raw_entries) = 2
    /\ raw_entries[1].player_name = N_CarlosAlcaraz
    /\ raw_entries[1].tournament = T_ATPDOHA
    /\ raw_entries[1].week = W_Feb16
    /\ raw_entries[2].player_name = N_AlcarazCarlos
    /\ raw_entries[2].tournament = T_Doha
    /\ raw_entries[2].week = W_Feb16_22
    /\ ~raw_entries[2].withdrawn
    /\ raw_entries[1].section = "Main Draw"
    /\ raw_entries[2].section = "Main Draw"
    /\ Len(RecordsOf(1)) = 1
    /\ RecordsOf(1)[1].tournament = T_Doha
    /\ RecordsOf(1)[1].week = W_Feb16
    /\ RecordsOf(1)[1].section = "Main Draw"
    /\ ~RecordsOf(1)[1].withdrawn

\* is short the name 'I. S' with I the first initial of full and S equal,
\* ignoring case, to the remaining tokens of full or to its last token
Abbreviates(short, full) ==
    LET t == StrSplit(full)
    IN  /\ Len(t) >= 2
        /\ Len(short) > 3
        /\ short[1] = UpperChar(t[1][1])
        /\ short[2] = "." /\ short[3] = " "
        /\ StrLower(SubSeq(short, 4, Len(short)))
             \in {StrLower(JoinSpace(Tail(t))), StrLower(t[Len(t)])}

FlagsByKey(records) == {<<RecordKey(records[r]), records[r].withdrawn>> :
                          r \in 1..Len(records)}

\* C17: for every players list and player-entry map, the per-player record
\* lists of write_html and of write_site_data hold the same set of
\* (tournament, section, week) keys with the same withdrawn flag for each key.
C17_SameMergeDecisions ==
    pc = "html_written" =>
      /\ Len(html_data) = Len(players_data)
      /\ \A i \in 1..Len(players_data) :
            FlagsByKey(html_data[i].entries) = FlagsByKey(players_data[i].entries)

\* C18: no stage of the run (_attach_draw_reasons, build_player_entry_map,
\* write_site_data) changes the value of a field of a raw entry that a
\* collector produced: every entry of the list and of the map is one of the
\* collected entries, field by field.
C18_RawEntriesImmutable ==
    /\ \A n \in 1..Len(all_entries) :
          \E m \in 1..Len(raw_entries) : all_entries[n] = raw_entries[m]
    /\ \A k \in DOMAIN player_entry_map :
          \A n \in 1..Len(player_entry_map[k]) :
             \E m \in 1..Len(raw_entries) : player_entry_map[k][n] = raw_entries[m]

Attached == pc \in {"attached", "matched", "csv_written", "written"}

\* has name the abbreviated form 'Initial. Surname'
LooksAbbreviated(name) ==
    /\ name # <<>>
    /\ InSeq(name[1], UpperCase)
    /\ \E k \in 2..5 : /\ k < Len(name)
                        /\ name[k] = "."
                        /\ IsSpace(name[k + 1])
                        /\ \A j \in 2..(k - 1) : InSeq(name[j], LowerCase)

\* does entry x supply a full name for the key (initial, surname or last
\* token, gender) of the draw entry de
SuppliesKey(x, de) ==
    LET t == StrSplit(x.player_name)
        surname == StrLower(StrStrip(SubSeq(de.player_name, 4, Len(de.player_name))))
        words == StrSplit(surname)
    IN  /\ ~IsDraw(x)
        /\ Len(t) >= 2
        /\ x.gender = de.gender
        /\ UpperChar(t[1][1]) = de.player_name[1]
        /\ {surname, words[Len(words)]}
             \cap {StrLower(JoinSpace(Tail(t))), StrLower(t[Len(t)])} # {}

HasLookupHit(de) == \E x \in 1..Len(raw_entries) : SuppliesKey(raw_entries[x], de)

\* C16: after _attach_draw_reasons the entry list holds no OfficialDraw entry
\* whose player_name still has the abbreviated form, every OfficialDraw entry
\* whose key has no full-name lookup hit has been removed, and every
\* OfficialDraw entry that was expanded is retained.
C16_UnexpandableDropped ==
    Attached =>
      /\ \A n \in 1..Len(all_entries) :
            IsDraw(all_entries[n]) => ~LooksAbbreviated(all_entries[n].player_name)
      /\ \A d \in 1..Len(raw_entries) :
            IsDraw(raw_entries[d]) =>
              IF HasLookupHit(raw_entries[d])
              THEN \E n \in 1..Len(all_entries), x \in 1..Len(raw_entries) :
                      /\ SuppliesKey(raw_entries[x], raw_entries[d])
                      /\ all_entries[n] =
                           [raw_entries[d] EXCEPT !.player_name = raw_entries[x].player_name]
              ELSE \A n \in 1..Len(all_entries) : all_entries[n] # raw_entries[d]

\* what the fold of write_site_data went through for the player of
\* players_data[i]: the dedup key of each matched entry, seen and deduped after
\* each entry, and the final list
FoldView(i) ==
    LET wmap == WeekMergeMap(players, player_entry_map)
        es == MatchedOf(i)
    IN  [es |-> es,
         key |-> [m \in 1..Len(es) |-> DedupKey(wmap, es[m])],
         at |-> [n \in 0..Len(es) |-> FoldUpTo(wmap, es, n).deduped],
         out |-> RecordsOf(i)]

\* is one of the first n entries with key k withdrawn / does it carry a reason
AnyWithdrawn(v, n, k) == \E m \in 1..n : v.key[m] = k /\ v.es[m].withdrawn
AnyReason(v, n, k) == \E m \in 1..n : v.key[m] = k /\ v.es[m].reason # ""

\* C2: a player's final record list never holds two records with the same
\* (canonical tournament, section, canonical week).
C2_DedupUnique ==
    Written => \A i \in 1..Len(players_data) :
                 \A a, b \in 1..Len(RecordsOf(i)) :
                    a # b => RecordKey(RecordsOf(i)[a]) # RecordKey(RecordsOf(i)[b])

\* three entries of one player, two of them with one key under different
\* spellings of the tournament, written as two records
C2_Witness ==
    /\ Written
    /\ \E i \in 1..Len(players_data) :
          LET v == FoldView(i)
          IN  /\ Len(v.es) = 3
              /\ Len(v.out) = 2
              /\ \E m, n \in 1..3 :
                    /\ m # n
                    /\ v.es[m].tournament # v.es[n].tournament
                    /\ v.key[m] = v.key[n]

\* C3: entries sharing one dedup key merge into a withdrawn record as soon as
\* one of them is withdrawn, in every arrival order: a withdrawn entry that
\* collides with an active record flips it and gives it its source, and a
\* withdrawn record stays withdrawn under every later entry.
C3_WithdrawalWins ==
    Written => \A i \in 1..Len(players_data) :
      LET v == FoldView(i)
      IN  /\ \A n \in 1..Len(v.es) :
               /\ \A r \in 1..Len(v.at[n]) :
                     AnyWithdrawn(v, n, RecordKey(v.at[n][r]))
                     => v.at[n][r].withdrawn
               /\ \A r \in 1..Len(v.at[n - 1]) :
                     /\ v.at[n - 1][r].withdrawn => v.at[n][r].withdrawn
                     /\ ( /\ RecordKey(v.at[n - 1][r]) = v.key[n]
                          /\ ~v.at[n - 1][r].withdrawn
                          /\ v.es[n].withdrawn )
                        => /\ v.at[n][r].withdrawn
                           /\ v.at[n][r].source = v.es[n].source
          /\ \A r \in 1..Len(v.out) :
                AnyWithdrawn(v, Len(v.es), RecordKey(v.out[r]))
                => v.out[r].withdrawn

\* an active entry, then a withdrawn one of another source with the same key,
\* then an active one again: one withdrawn record with the second one's source
C3_Witness ==
    /\ Written
    /\ \E i \in 1..Len(players_data) :
          LET v == FoldView(i)
          IN  /\ Len(v.es) = 3
              /\ ~v.es[1].withdrawn /\ v.es[2].withdrawn /\ ~v.es[3].withdrawn
              /\ v.es[1].source # v.es[2].source
              /\ v.key[1] = v.key[2] /\ v.key[2] = v.key[3]
              /\ Len(v.out) = 1
              /\ v.out[1].withdrawn
              /\ v.out[1].source = v.es[2].source

\* C4: no final record list holds a withdrawn record in a section together
\* with an active record for the same tournament and week in a section of
\* strictly higher priority; a withdrawn Qualifying entry plus an active Main
\* Draw entry for the same tournament and week leave the Main Draw record only.
C4_PromotionSafety ==
    Written => \A i \in 1..Len(players_data) :
      LET v == FoldView(i)
      IN  /\ \A d, a \in 1..Len(v.out) :
                ~ ( /\ v.out[d].withdrawn
                    /\ ~v.out[a].withdrawn
                    /\ v.out[a].tournament = v.out[d].tournament
                    /\ v.out[a].week = v.out[d].week
                    /\ SectionRank(v.out[a].section) > SectionRank(v.out[d].section) )
          /\ ( /\ Len(v.es) = 2
               /\ \E q, m \in 1..2 :
                     /\ v.es[q].section = "Qualifying" /\ v.es[q].withdrawn
                     /\ v.es[m].section = "Main Draw" /\ ~v.es[m].withdrawn
                     /\ v.key[q][1] = v.key[m][1]
                     /\ v.key[q][3] = v.key[m][3] )
             => /\ Len(v.out) = 1
                /\ v.out[1].section = "Main Draw"
                /\ ~v.out[1].withdrawn

\* a withdrawn Qualifying record was dropped because the player is active in
\* the Main Draw of the same tournament and week
C4_Witness ==
    /\ Written
    /\ \E i \in 1..Len(players_data) :
          LET v == FoldView(i)
              all == v.at[Len(v.es)]
          IN  /\ Len(v.out) < Len(all)
              /\ \E d, a \in 1..Len(all) :
                    /\ all[d].withdrawn /\ all[d].section = "Qualifying"
                    /\ ~all[a].withdrawn /\ all[a].section = "Main Draw"
                    /\ all[a].tournament = all[d].tournament
                    /\ \A r \in 1..Len(v.out) : RecordKey(v.out[r]) # RecordKey(all[d])

\* C5: a withdrawn final record carries a non-empty reason whenever one of
\* the entries folded into it carried a non-empty reason.
C5_ReasonRetained ==
    Written => \A i \in 1..Len(players_data) :
      LET v == FoldView(i)
      IN  \A r \in 1..Len(v.out) :
             ( v.out[r].withdrawn
               /\ AnyReason(v, Len(v.es), RecordKey(v.out[r])) )
             => v.out[r].reason # ""

\* C20: when an incoming entry collides with a merged record on the dedup
\* key, comes from OfficialDraw and has a non-empty reason, the record's
\* source, reason and withdrawal_type are replaced by the incoming entry's
\* values, whatever the record held before, and the record is withdrawn.
C20_AuthoritativeOverwrite ==
    Written => \A i \in 1..Len(players_data) :
      LET v == FoldView(i)
      IN  \A n \in 1..Len(v.es) :
            \A r \in 1..Len(v.at[n - 1]) :
               ( /\ RecordKey(v.at[n - 1][r]) = v.key[n]
                 /\ v.es[n].source = "OfficialDraw"
                 /\ v.es[n].reason # "" )
               => /\ v.at[n][r].source = v.es[n].source
                  /\ v.at[n][r].reason = v.es[n].reason
                  /\ v.at[n][r].withdrawal_type = v.es[n].withdrawal_type
                  /\ v.at[n][r].withdrawn

\* does entry n of the fold meet a record with its key and change nothing by
\* rule: it is not a withdrawal meeting an active record, and it is not an
\* OfficialDraw entry with a reason
QuietCollision(v, n, r) ==
    /\ RecordKey(v.at[n - 1][r]) = v.key[n]
    /\ ~(v.es[n].withdrawn /\ ~v.at[n - 1][r].withdrawn)
    /\ ~(v.es[n].source = "OfficialDraw" /\ v.es[n].reason # "")

\* C21: first-seen wins: when an incoming entry collides on the dedup key and
\* is neither withdrawn against an active record nor an OfficialDraw entry
\* with a non-empty reason, the merged record keeps every field and the record
\* list keeps its length and order.
C21_FirstSeenWins ==
    Written => \A i \in 1..Len(players_data) :
      LET v == FoldView(i)
      IN  \A n \in 1..Len(v.es) :
            (\E r \in 1..Len(v.at[n - 1]) : QuietCollision(v, n, r))
            => v.at[n] = v.at[n - 1]

\* a withdrawn record of one source met by a later entry of another source
\* with the same key, a draw withdrawal without a reason or an active entry,
\* and left as it was
C21_Witness ==
    /\ Written
    /\ \E i \in 1..Len(players_data) :
          LET v == FoldView(i)
          IN  \E m \in 2..Len(v.es) : \E n \in (m + 1)..Len(v.es) :
                 \E r \in 1..Len(v.at[m - 1]) :
                    /\ QuietCollision(v, m, r)
                    /\ QuietCollision(v, n, r)
                    /\ v.at[m - 1][r].withdrawn
                    /\ ~v.es[m].withdrawn
                    /\ v.es[n].source = "OfficialDraw"
                    /\ v.es[n].tournament # v.es[1].tournament
                    /\ v.at[n][r] = v.at[m - 1][r]
                    /\ v.at[n][r].source = "TickTockTennis"

\* (month, day) of a week label, and their order
Dated(week) == _extract_start_date(week) # None
MonthDayLE(a, b) ==
    LET x == _extract_start_date(a)
        y == _extract_start_date(b)
    IN  x[1] < y[1] \/ (x[1] = y[1] /\ x[2] <= y[2])

\* the place of record d in a list without duplicates
PlaceOf(d, list) == CHOOSE k \in 1..Len(list) : list[k] = d

\* C22: a player's final record list is sorted ascending by the canonical
\* week's (month, day); every record whose week is unparseable or empty comes
\* after every record with a parseable week; records with equal sort keys
\* keep their first-seen relative order.
C22_OutputOrder ==
    Written => \A i \in 1..Len(players_data) :
      LET v == FoldView(i)
          seenOrder == RemovePromoted(v.at[Len(v.es)])
      IN  /\ Len(v.out) = Len(seenOrder)
          /\ \A a, b \in 1..Len(v.out) :
                a < b =>
                  /\ (Dated(v.out[a].week) /\ Dated(v.out[b].week))
                     => MonthDayLE(v.out[a].week, v.out[b].week)
                  /\ ~(~Dated(v.out[a].week) /\ Dated(v.out[b].week))
          /\ \A a, b \in 1..Len(seenOrder) :
                (a < b /\ _week_sort_key(seenOrder[a].week) = _week_sort_key(seenOrder[b].week))
                => /\ \E k \in 1..Len(v.out) : v.out[k] = seenOrder[a]
                   /\ \E k \in 1..Len(v.out) : v.out[k] = seenOrder[b]
                   /\ PlaceOf(seenOrder[a], v.out) < PlaceOf(seenOrder[b], v.out)

\* an undated record seen first, then two records of one dated week: the two
\* dated ones are written in the order seen and the undated one last
C22_Witness ==
    /\ Written
    /\ \E i \in 1..Len(players_data) :
          LET v == FoldView(i)
              seenOrder == v.at[Len(v.es)]
          IN  /\ Len(v.out) = 3
              /\ ~Dated(seenOrder[1].week)
              /\ seenOrder[2].week = seenOrder[3].week
              /\ Dated(seenOrder[2].week)
              /\ v.out = <<seenOrder[2], seenOrder[3], seenOrder[1]>>

\* is entry n an exact entry of players[i]: the normalized names are equal
\* and the genders are not known to differ
ExactFor(i, n) ==
    /\ normalize_name(all_entries[n].player_name) = normalize_name(players[i].name)
    /\ ~ ( /\ Known(players[i].gender) /\ Known(all_entries[n].gender)
           /\ players[i].gender # all_entries[n].gender )

\* C23: the exact fast path short-circuits fuzzy matching: a player with at
\* least one exact entry gets exactly the exact entries, in input order, and
\* no entry of another normalized name even if its score is 95 or more.
C23_ExactFastPath ==
    Matched => \A i \in 1..Len(players) :
      (\E n \in 1..Len(all_entries) : ExactFor(i, n))
      => /\ ResultOf(i) = Filter(all_entries, {n \in 1..Len(all_entries) : ExactFor(i, n)})
         /\ \A m \in 1..Len(ResultOf(i)) :
               normalize_name(ResultOf(i)[m].player_name) = normalize_name(players[i].name)

\* a player with one exact entry and one entry of the same gender under
\* another name that scores 96: the result is the exact entry alone
C23_Witness ==
    /\ Matched
    /\ \E i \in 1..Len(players) : \E n, m \in 1..Len(all_entries) :
          /\ ExactFor(i, n)
          /\ normalize_name(all_entries[m].player_name) # normalize_name(players[i].name)
          /\ all_entries[m].gender = players[i].gender
          /\ players[i].gender = "M"
          /\ score[<<normalize_name(players[i].name),
                     normalize_name(all_entries[m].player_name)>>] >= 95
          /\ ResultOf(i) = <<all_entries[n]>>

\* the reference procedure: the earliest label of the remaining dated labels,
\* by key and then by label, takes every label whose key is at most 5 above
\* its own, and the procedure goes on with the rest
RECURSIVE ReferenceGroups(_)
ReferenceGroups(S) ==
    IF S = {} THEN <<>>
    ELSE LET first == CHOOSE w \in S : \A v \in S \ {w} :
                         \/ WeekKey(w) < WeekKey(v)
                         \/ WeekKey(w) = WeekKey(v) /\ StrLess(w, v)
             group == {w \in S : WeekKey(w) - WeekKey(first) <= 5}
         IN  [w \in group |-> first] @@ ReferenceGroups(S \ group)

ReferenceMerge(S) ==
    LET dated == {w \in S : _extract_start_date(w) # None}
    IN  ReferenceGroups(dated) @@ [w \in S \ dated |-> w]

\* C24: _merge_close_weeks equals the greedy sweep anchored on the first label
\* of each group: a label joins the current group iff its key month*100+day is
\* at most 5 above the key of the group's first label; keys 1, 5, 9 of one
\* month give the groups {1, 5} and {9}; the result does not depend on the
\* order in which the input set is iterated.
C24_AnchoredSweep ==
    /\ pc \in {"weeks_merged", "weeks_keyed", "weeks_ordered"}
         => nm_ra = ReferenceMerge(nm_a)
    /\ pc = "weeks_ordered" => nm_b.merge_map = nm_ra
    /\ (pc = "weeks_ordered" /\ nm_a = {W_Feb1, W_Feb5, W_Feb9})
         => nm_ra = (W_Feb1 :> W_Feb1) @@ (W_Feb5 :> W_Feb1) @@ (W_Feb9 :> W_Feb9)

\* 'Feb 1', 'Feb 5' and 'Feb 9' iterated from the latest to the earliest
C24_Witness ==
    /\ pc = "weeks_ordered"
    /\ nm_b.order = <<W_Feb9, W_Feb5, W_Feb1>>
    /\ nm_ra[W_Feb5] = W_Feb1
    /\ nm_ra[W_Feb9] = W_Feb9

\* month*100+day of a dated label
MonthDayKey(w) == _extract_start_date(w)[1] * 100 + _extract_start_date(w)[2]

\* the dated canonical labels of the map
DatedCanon == {nm_ra[w] : w \in nm_a} \cap {w \in nm_a : Dated(w)}

\* C28: canonical weeks are well separated: two distinct canonical labels with
\* parseable dates have keys month*100+day that differ by more than 5, and
\* the key of every parseable label is at least the key of its canonical
\* label and at most 5 above it.
C28_WellSeparated ==
    WeeksMerged =>
      /\ \A a, b \in DatedCanon :
            a # b => \/ MonthDayKey(a) - MonthDayKey(b) > 5
                     \/ MonthDayKey(b) - MonthDayKey(a) > 5
      /\ \A w \in nm_a :
            Dated(w) => /\ Dated(nm_ra[w])
                        /\ MonthDayKey(nm_ra[w]) <= MonthDayKey(w)
                        /\ MonthDayKey(w) <= MonthDayKey(nm_ra[w]) + 5

\* two groups: 'Feb 21' is 5 above 'Feb 16' and joins it, 'Feb 23' is 7 above
\* and stands alone
C28_Witness ==
    /\ WeeksMerged
    /\ nm_a = {W_Feb16, W_Feb21, W_Feb23}
    /\ nm_ra[W_Feb21] = W_Feb16
    /\ nm_ra[W_Feb23] = W_Feb23
    /\ DatedCanon = {W_Feb16, W_Feb23}

\* the words of a name, and the surname written after 'X. ' in a draw name
WordsOf(name) == StrSplit(name)
DrawSurname(de) == StrLower(StrStrip(SubSeq(de.player_name, 4, Len(de.player_name))))

\* does the full name of entry x have the key of the draw entry de: the same
\* gender and first initial, and de's surname as its surname or last token
SharesKey(x, de) ==
    /\ ~IsDraw(x)
    /\ Len(WordsOf(x.player_name)) >= 2
    /\ x.gender = de.gender
    /\ UpperChar(WordsOf(x.player_name)[1][1]) = de.player_name[1]
    /\ DrawSurname(de) \in {StrLower(JoinSpace(Tail(WordsOf(x.player_name)))),
                            StrLower(WordsOf(x.player_name)[Len(WordsOf(x.player_name))])}

\* C25: when two or more distinct full names among the entries of the other
\* sources share the key (first initial, lowercase surname or last token,
\* gender) of an OfficialDraw record, the record is expanded to the full name
\* of the entry that comes first in the entry list, and the step completes.
C25_FirstMatchExpansion ==
    Attached =>
      \A d \in 1..Len(raw_entries) :
        IsDraw(raw_entries[d]) =>
          LET sharing == {x \in 1..Len(raw_entries) :
                            SharesKey(raw_entries[x], raw_entries[d])}
              first == CHOOSE x \in sharing : \A y \in sharing : x <= y
          IN  (\E x, y \in sharing :
                  raw_entries[x].player_name # raw_entries[y].player_name)
              => \E n \in 1..Len(all_entries) :
                    all_entries[n] =
                      [raw_entries[d] EXCEPT !.player_name = raw_entries[first].player_name]

\* 'Ane De Li' listed before 'Anne Li': the draw record 'A. Li' becomes
\* 'Ane De Li'
C25_Witness ==
    /\ Attached
    /\ Len(raw_entries) = 3
    /\ raw_entries[1].player_name = N_AneDeLi
    /\ raw_entries[2].player_name = N_AnneLi
    /\ raw_entries[3].player_name = N_ALi
    /\ raw_entries[3].gender = "M"
    /\ all_entries[3].player_name = N_AneDeLi
    /\ IsDraw(all_entries[3])

\* the entries of the other sources, in list order
NonDraws(entries) == Filter(entries, {i \in 1..Len(entries) : ~IsDraw(entries[i])})

\* the draw records with a reason whose key entry x has
ReasonedDrawsFor(x) ==
    {d \in 1..Len(raw_entries) :
        /\ IsDraw(raw_entries[d])
        /\ raw_entries[d].reason # ""
        /\ SharesKey(x, raw_entries[d])}

\* C26: in _attach_draw_reasons every withdrawn entry of another source that
\* has no reason and whose key (initial, surname or last token, gender) is
\* the key of an OfficialDraw record with a non-empty reason receives that
\* reason, whatever tournament or week either names and whether or not the
\* draw record is later expanded or discarded; an entry that already has a
\* reason and an entry that is not withdrawn are not changed.
C26_ReasonPropagation ==
    Attached =>
      /\ Len(NonDraws(all_entries)) = Len(NonDraws(raw_entries))
      /\ \A k \in 1..Len(NonDraws(raw_entries)) :
            LET before == NonDraws(raw_entries)[k]
                after == NonDraws(all_entries)[k]
            IN  IF before.withdrawn /\ before.reason = ""
                THEN ReasonedDrawsFor(before) # {}
                     => \E d \in ReasonedDrawsFor(before) :
                           after = [before EXCEPT !.reason = raw_entries[d].reason]
                ELSE after = before

\* 'A.J. Li' withdrawn at Doha without a reason and the draw record 'A. Li'
\* withdrawn at Rio with 'shoulder': the entry has the reason and the draw
\* record is gone
C26_Witness ==
    /\ Attached
    /\ Len(raw_entries) = 2
    /\ raw_entries[1].player_name = N_AJLi
    /\ raw_entries[1].reason = ""
    /\ raw_entries[1].tournament # raw_entries[2].tournament
    /\ raw_entries[1].week # raw_entries[2].week
    /\ raw_entries[2].player_name = N_ALi
    /\ raw_entries[2].reason = "shoulder"
    /\ all_entries = <<[raw_entries[1] EXCEPT !.reason = "shoulder"]>>

\* was the cache fresh with a list for the tour when the call was made
CacheServes(gender) ==
    /\ cache.updated # Absent
    /\ cache.updated >= now - (now % 7)
    /\ cache.lists[gender] # Absent

OwnEntriesOnly(i) ==
    [k \in DOMAIN player_entry_map |->
        IF k = <<players_data[i].name, players_data[i].gender>>
        THEN player_entry_map[k] ELSE <<>>]

\* C29: the record list write_site_data produces for a player depends only on
\* the player's own matched entries: with the matched entries of the other
\* players removed, and with them the week labels they feed to the week-merge
\* map, the player's records are the same.
C29_PlayerIsolation ==
    Written => \A i \in 1..Len(players_data) :
      \E j \in 1..Len(players_data) :
         LET alone == write_site_data(players, OwnEntriesOnly(i))[j]
         IN  /\ alone.name = players_data[i].name
             /\ alone.gender = players_data[i].gender
             /\ alone.entries = players_data[i].entries

\* the three named sections in their priority, every other section below them
NamedSections == {"Alternates", "Qualifying", "Main Draw"}
Priority(section) == IF section = "Main Draw" THEN 3
                     ELSE IF section = "Qualifying" THEN 2
                     ELSE IF section = "Alternates" THEN 1
                     ELSE 0

\* is record d of the merged list in the final list
KeptIn(out, d) == \E k \in 1..Len(out) : out[k] = d

\* is record a an active record of the tournament and week of record d
ActiveBeside(a, d) ==
    ~a.withdrawn /\ a.tournament = d.tournament /\ a.week = d.week

\* C30: the promotion step never removes a non-withdrawn record and never
\* removes a Main Draw record; a record whose section is not Alternates,
\* Qualifying or Main Draw ranks below Alternates: when withdrawn it is
\* removed whenever an active record of one of the three named sections
\* exists for the same tournament and week, and when active it never causes
\* a removal.
C30_PromotionOnUnlisted ==
    Written => \A i \in 1..Len(players_data) :
      LET v == FoldView(i)
          all == v.at[Len(v.es)]
      IN  \A d \in 1..Len(all) :
            /\ ~all[d].withdrawn => KeptIn(v.out, all[d])
            /\ all[d].section = "Main Draw" => KeptIn(v.out, all[d])
            /\ ( /\ all[d].withdrawn
                 /\ all[d].section \notin NamedSections
                 /\ \E a \in 1..Len(all) : /\ ActiveBeside(all[a], all[d])
                                            /\ all[a].section \in NamedSections )
               => ~KeptIn(v.out, all[d])
            /\ ~KeptIn(v.out, all[d])
               => \E a \in 1..Len(all) : /\ ActiveBeside(all[a], all[d])
                                          /\ all[a].section \in NamedSections
                                          /\ Priority(all[a].section) > Priority(all[d].section)

\* a withdrawn Wild Card record dropped beside an active Alternates record
\* and an active Qualifying WC record of the same tournament and week
C30_Witness ==
    /\ Written
    /\ \E i \in 1..Len(players_data) :
          LET v == FoldView(i)
              all == v.at[Len(v.es)]
          IN  /\ Len(all) = 3
              /\ \E d, a, u \in 1..3 :
                    /\ all[d].withdrawn /\ all[d].section = "Wild Card"
                    /\ ActiveBeside(all[a], all[d]) /\ all[a].section = "Alternates"
                    /\ ActiveBeside(all[u], all[d]) /\ all[u].section = "Qualifying WC"
                    /\ ~KeptIn(v.out, all[d])
                    /\ Len(v.out) = 2

====
